---------------------------- MODULE Spec2Model ----------------------------
(***************************************************************************)
(* A model of porter's application-specification engine:                   *)
(*   - the canonicalizer AppProtoFromYaml (porter.yaml -> PorterApp),       *)
(*   - the form model adapter clientAppFromProto (PorterApp -> client app), *)
(*   - the CreateApp editing session (submit / validate / create / apply).  *)
(* An optional value (a Go pointer, a TypeScript `T | undefined`) is a set  *)
(* with at most one element: {} is nil/undefined, {v} is the value v.       *)
(* A service name is a sequence of one-character strings, so that           *)
(* strings.Contains is computed and not assumed.                           *)
(***************************************************************************)
EXTENDS Integers, Sequences, FiniteSets, TLC

VARIABLES
    porterYaml,     \* the unmarshalled porter.yaml handed to AppProtoFromYaml
    appProto,       \* what AppProtoFromYaml returned: [app, err]
    canonPc,        \* "input" before the call, "done" after it
    proto,          \* the PorterApp handed to clientAppFromProto
    overrides,      \* the DetectedServices handed to it: {} is null
    clientApp,      \* the ClientPorterApp it returned: {} before the call
    clientApp2,     \* the ClientPorterApp of reconciling clientApp again
    reconPc,        \* "input", "once" after the first call, "twice"
    formData,       \* CreateApp: the form's data, as the count of edits made
    sourceType,     \* source.type of the form: "github" or "docker-registry"
    deploymentTarget,   \* whether useDefaultDeploymentTarget has a target
    validatedAppProto,  \* the validatedAppProto state: {} is null
    deployError,    \* the deployError state
    showGHAModal,   \* the showGHAModal state
    isDeploying,    \* the isDeploying state
    calls,          \* the invocations of onSubmit and of deployPorterApp
    createdApps,    \* the applications api.createApp was called with
    appliedApps,    \* the applications api.applyApp was called with
    porterAppFormData,  \* clientAppToProto: the form data {app, source}
    formProto,      \* clientAppToProto: the PorterApp returned, {} before
    formPc,         \* "input", then "done"
    request,        \* ValidatePorterAppHandler: the HTTP request
    project,        \* the project of the request's scope
    sentApp,        \* the specification the client encoded into the request
    ccpRequests,    \* the requests sent to ValidatePorterApp of the authority
    ccpResp,        \* what the authority answered to the handler's call
    response,       \* what the handler wrote: an error or a result
    handlerPc,      \* "input", then "done"
    subEvents,      \* BuildEventRepository: the rows of the sub-event table
    lastAppend,     \* the last AppendEvent: its container, event and error
    buildInp,       \* build: the buildInput of the call
    buildCalls,     \* the calls build made to the client and the agents
    buildErr,       \* the error build returned: "" is nil
    buildPc,        \* "input", then "done"
    tokenCache,     \* the TokenCache behind getTokenCache and setTokenCache
    clock,          \* time.Now()
    tokenCall,      \* the last GetBearerToken call: {} before the first
    generated,      \* how many tokens the generator has issued
    pods,           \* ControllerTabFC: the pods state
    selectedPod,    \* the selectedPod property: {} is none
    userSelectedPod,    \* the userSelectedPod state
    podRequests     \* the updatePods calls: what each captured and its pc

canonVars == <<porterYaml, appProto, canonPc>>
reconVars == <<proto, overrides, clientApp, clientApp2, reconPc>>
sessionVars == <<formData, sourceType, deploymentTarget, validatedAppProto,
                 deployError, showGHAModal, isDeploying, calls, createdApps,
                 appliedApps>>
formVars == <<porterAppFormData, formProto, formPc>>
handlerVars == <<request, project, sentApp, ccpRequests, ccpResp, response, handlerPc>>
eventVars == <<subEvents, lastAppend>>
buildVars == <<buildInp, buildCalls, buildErr, buildPc>>
tokenVars == <<tokenCache, clock, tokenCall, generated>>
podVars == <<pods, selectedPod, userSelectedPod, podRequests>>
restVars == <<eventVars, buildVars, tokenVars, podVars>>
vars == <<canonVars, reconVars, sessionVars, formVars, handlerVars, restVars>>

----------------------------------------------------------------------------
(* Strings as character sequences *)

Str_web == <<"w", "e", "b">>
Str_wkr == <<"w", "k", "r">>
Str_job == <<"j", "o", "b">>

\* strings.Contains(s, substr)
Contains(s, substr) ==
    \E i \in 1..(Len(s) + 1) :
        /\ i + Len(substr) - 1 <= Len(s)
        /\ SubSeq(s, i, i + Len(substr) - 1) = substr

\* The service names a document may use.
ServiceNames ==
    { <<"w", "e", "b", "-", "j", "o", "b">>,
      <<"w", "k", "r", "-", "j", "o", "b">>,
      <<"j", "o", "b">>,
      <<"a", "p", "i">> }

\* The most services one document declares.
MaxServices == 2

----------------------------------------------------------------------------
(* porterv1 enums and the int32 conversion *)

SERVICE_TYPE_UNSPECIFIED == "SERVICE_TYPE_UNSPECIFIED"
SERVICE_TYPE_WEB == "SERVICE_TYPE_WEB"
SERVICE_TYPE_WORKER == "SERVICE_TYPE_WORKER"
SERVICE_TYPE_JOB == "SERVICE_TYPE_JOB"

ServiceTypes == {SERVICE_TYPE_WEB, SERVICE_TYPE_WORKER, SERVICE_TYPE_JOB}

\* Half of the 32 bits of an int32: 2^16.
Half == 65536

\* A Go int of the document (64 bits wide) as hi * 2^16 + lo with
\* 0 <= lo < 2^16, so that integers wider than 32 bits can be written down.
GoInt(n) == [hi |-> n \div Half, lo |-> n % Half]

\* The Go int 2^32 + 1.
WideInt == [hi |-> Half, lo |-> 1]

\* The Go int 2^31, the least integer above the int32 range.
OverInt32 == [hi |-> Half \div 2, lo |-> 0]

\* Whether the Go int x equals the int32 v.
SameInteger(x, v) == x = GoInt(v)

\* Go's int32(x) of an int: the low 32 bits read as two's complement, computed
\* on the two 16-bit halves of these bits.
Int32(x) ==
    LET lo == x.lo
        hi == x.hi % Half
    IN  IF hi >= Half \div 2 THEN (hi - Half) * Half + lo ELSE hi * Half + lo

----------------------------------------------------------------------------
(* The porter.yaml structures (PorterYAML, Service, AutoScaling, ...) *)

AutoScalingInputs ==
    { [Enabled |-> TRUE, MinInstances |-> GoInt(1), MaxInstances |-> GoInt(3),
       CpuThresholdPercent |-> GoInt(60), MemoryThresholdPercent |-> GoInt(60)] }

HealthCheckInputs == { [Enabled |-> TRUE, HttpPath |-> "/healthz"] }

DomainsInputs == { <<[Name |-> "test1.example.com"]>> }

\* A service entry with only the common fields set.
PlainService(type, run, instances) ==
    [ Run |-> run, Type |-> type, Instances |-> GoInt(instances),
      CpuCores |-> 0, RamMegabytes |-> GoInt(0), Port |-> GoInt(0),
      Autoscaling |-> {}, Domains |-> <<>>, HealthCheck |-> {},
      AllowConcurrent |-> FALSE, Cron |-> "" ]

TypeInputs == {"", "web", "worker", "job", "cron"}

\* The service entries a document may hold: every type literal, alone or with
\* one of the kind-specific fields, and a worker with its resources set, with
\* an instance count wider than 32 bits, or with a negative instance count
\* and a memory size just above the int32 range.
ServiceInputs ==
    LET base == { PlainService(t, "run", 1) : t \in TypeInputs }
        wkr == PlainService("worker", "echo 'work'", 1)
    IN  base
        \cup { [wkr EXCEPT !.CpuCores = 1, !.RamMegabytes = GoInt(256),
                           !.Port = GoInt(80)],
               [wkr EXCEPT !.Instances = WideInt],
               [wkr EXCEPT !.Instances = GoInt(-1), !.RamMegabytes = OverInt32] }
        \cup { [s EXCEPT !.Autoscaling = {a}] : s \in base, a \in AutoScalingInputs }
        \cup { [s EXCEPT !.HealthCheck = {h}] : s \in base, h \in HealthCheckInputs }
        \cup { [s EXCEPT !.Domains = d] : s \in base, d \in DomainsInputs }
        \cup { [s EXCEPT !.Cron = "*/10 * * * *"] : s \in base }
        \cup { [s EXCEPT !.AllowConcurrent = TRUE] : s \in base }

PredeployInputs ==
    { PlainService("", "ls", 0),
      [PlainService("web", "ls", 0) EXCEPT !.Cron = "*/10 * * * *"] }

ImageInputs == { [Repository |-> "nginx", Tag |-> "latest"] }

BuildInputs ==
    { [Context |-> "./", Method |-> "pack", Builder |-> "heroku/buildpacks:20",
       Buildpacks |-> <<"heroku/nodejs">>, Dockerfile |-> "./Dockerfile"] }

\* Every map from at most MaxServices names to service entries.
ServiceMaps ==
    UNION { [ns -> ServiceInputs] :
              ns \in { x \in SUBSET ServiceNames : Cardinality(x) <= MaxServices } }

\* The top-level keys of a document besides `services`: those of the test's
\* document (a name, an image, no build, no predeploy), alone or with one key
\* changed. hasServices is whether the `services` key is there at all.
TopLevelInputs ==
    LET base == [ Name |-> "js-test-app", hasServices |-> TRUE,
                  Image |-> ImageInputs, Build |-> {}, Predeploy |-> {} ]
    IN  {base, [base EXCEPT !.Name = ""], [base EXCEPT !.hasServices = FALSE],
         [base EXCEPT !.Image = {}], [base EXCEPT !.Build = BuildInputs],
         [base EXCEPT !.Build = BuildInputs, !.Image = {}]}
        \cup { [base EXCEPT !.Predeploy = {p}] : p \in PredeployInputs }

\* The unmarshalled document: Services is {} when the key is absent (a nil
\* map), {m} otherwise.
PorterYAML(top, m) ==
    [ Name |-> top.Name,
      Services |-> IF top.hasServices THEN {m} ELSE {},
      Image |-> top.Image,
      Build |-> top.Build,
      Predeploy |-> top.Predeploy ]

----------------------------------------------------------------------------
(* The canonicalizer *)

Ok(v) == [app |-> {v}, err |-> ""]
Err(msg) == [app |-> {}, err |-> msg]

\* protoEnumFromType with the name rules tried before the `type` field.
protoEnumFromType_nameFirst(name, service) ==
    IF Contains(name, Str_web) THEN [type |-> SERVICE_TYPE_WEB, err |-> ""]
    ELSE IF Contains(name, Str_wkr) THEN [type |-> SERVICE_TYPE_WORKER, err |-> ""]
    ELSE IF Contains(name, Str_job) THEN [type |-> SERVICE_TYPE_JOB, err |-> ""]
    ELSE IF service.Type = "web" THEN [type |-> SERVICE_TYPE_WEB, err |-> ""]
    ELSE IF service.Type = "worker" THEN [type |-> SERVICE_TYPE_WORKER, err |-> ""]
    ELSE IF service.Type = "job" THEN [type |-> SERVICE_TYPE_JOB, err |-> ""]
    ELSE [type |-> SERVICE_TYPE_UNSPECIFIED, err |-> "invalid service type"]

\* protoEnumFromType with the name rules in the order job, wkr, web.
protoEnumFromType_jobFirst(name, service) ==
    IF service.Type # ""
    THEN IF service.Type = "web" THEN [type |-> SERVICE_TYPE_WEB, err |-> ""]
         ELSE IF service.Type = "worker" THEN [type |-> SERVICE_TYPE_WORKER, err |-> ""]
         ELSE IF service.Type = "job" THEN [type |-> SERVICE_TYPE_JOB, err |-> ""]
         ELSE [type |-> SERVICE_TYPE_UNSPECIFIED, err |-> "invalid service type"]
    ELSE IF Contains(name, Str_job) THEN [type |-> SERVICE_TYPE_JOB, err |-> ""]
    ELSE IF Contains(name, Str_wkr) THEN [type |-> SERVICE_TYPE_WORKER, err |-> ""]
    ELSE IF Contains(name, Str_web) THEN [type |-> SERVICE_TYPE_WEB, err |-> ""]
    ELSE [type |-> SERVICE_TYPE_UNSPECIFIED,
          err |-> "no type provided and could not parse service type from name"]

\* protoEnumFromType: [type, err]
protoEnumFromType(name, service) ==
    IF service.Type # ""
    THEN IF service.Type = "web" THEN [type |-> SERVICE_TYPE_WEB, err |-> ""]
         ELSE IF service.Type = "worker" THEN [type |-> SERVICE_TYPE_WORKER, err |-> ""]
         ELSE IF service.Type = "job" THEN [type |-> SERVICE_TYPE_JOB, err |-> ""]
         ELSE [type |-> SERVICE_TYPE_UNSPECIFIED, err |-> "invalid service type"]
    ELSE IF Contains(name, Str_web) THEN [type |-> SERVICE_TYPE_WEB, err |-> ""]
    ELSE IF Contains(name, Str_wkr) THEN [type |-> SERVICE_TYPE_WORKER, err |-> ""]
    ELSE IF Contains(name, Str_job) THEN [type |-> SERVICE_TYPE_JOB, err |-> ""]
    ELSE [type |-> SERVICE_TYPE_UNSPECIFIED,
          err |-> "no type provided and could not parse service type from name"]

autoscalingProto(a) ==
    [ Enabled |-> a.Enabled,
      MinInstances |-> Int32(a.MinInstances),
      MaxInstances |-> Int32(a.MaxInstances),
      CpuThresholdPercent |-> Int32(a.CpuThresholdPercent),
      MemoryThresholdPercent |-> Int32(a.MemoryThresholdPercent) ]

\* The oneof Config of porterv1.Service: one slot per variant, {} when unset.
NoConfig == [WebConfig |-> {}, WorkerConfig |-> {}, JobConfig |-> {}]

\* serviceProtoFromConfig whose worker case also fills the web variant.
serviceProtoFromConfig_workerAsWeb(service, serviceType) ==
    LET serviceProto ==
            [ Run |-> service.Run,
              Type |-> serviceType,
              Instances |-> Int32(service.Instances),
              CpuCores |-> service.CpuCores,
              RamMegabytes |-> Int32(service.RamMegabytes),
              Port |-> Int32(service.Port),
              Config |-> NoConfig ]
        autoscaling == { autoscalingProto(a) : a \in service.Autoscaling }
        webConfig ==
            [ Autoscaling |-> autoscaling,
              HealthCheck |-> { [Enabled |-> h.Enabled, HttpPath |-> h.HttpPath] :
                                  h \in service.HealthCheck },
              Domains |-> [i \in 1..Len(service.Domains) |->
                              [Name |-> service.Domains[i].Name]] ]
        jobConfig ==
            [ AllowConcurrent |-> service.AllowConcurrent, Cron |-> service.Cron ]
    IN  IF serviceType = SERVICE_TYPE_WEB
        THEN [svc |-> {[serviceProto EXCEPT !.Config.WebConfig = {webConfig}]},
              err |-> ""]
        ELSE IF serviceType = SERVICE_TYPE_WORKER
        THEN [svc |-> {[serviceProto EXCEPT
                          !.Config.WebConfig = {webConfig},
                          !.Config.WorkerConfig = {[Autoscaling |-> autoscaling]}]},
              err |-> ""]
        ELSE IF serviceType = SERVICE_TYPE_JOB
        THEN [svc |-> {[serviceProto EXCEPT !.Config.JobConfig = {jobConfig}]},
              err |-> ""]
        ELSE [svc |-> {}, err |-> "invalid service type"]

\* serviceProtoFromConfig: [svc, err]
serviceProtoFromConfig(service, serviceType) ==
    LET serviceProto ==
            [ Run |-> service.Run,
              Type |-> serviceType,
              Instances |-> Int32(service.Instances),
              CpuCores |-> service.CpuCores,
              RamMegabytes |-> Int32(service.RamMegabytes),
              Port |-> Int32(service.Port),
              Config |-> NoConfig ]
        webConfig ==
            [ Autoscaling |-> { autoscalingProto(a) : a \in service.Autoscaling },
              HealthCheck |-> { [Enabled |-> h.Enabled, HttpPath |-> h.HttpPath] :
                                  h \in service.HealthCheck },
              Domains |-> [i \in 1..Len(service.Domains) |->
                              [Name |-> service.Domains[i].Name]] ]
        workerConfig ==
            [ Autoscaling |-> { autoscalingProto(a) : a \in service.Autoscaling } ]
        jobConfig ==
            [ AllowConcurrent |-> service.AllowConcurrent, Cron |-> service.Cron ]
    IN  IF serviceType = SERVICE_TYPE_UNSPECIFIED
        THEN [svc |-> {}, err |-> "Service type unspecified"]
        ELSE IF serviceType = SERVICE_TYPE_WEB
        THEN [svc |-> {[serviceProto EXCEPT !.Config.WebConfig = {webConfig}]},
              err |-> ""]
        ELSE IF serviceType = SERVICE_TYPE_WORKER
        THEN [svc |-> {[serviceProto EXCEPT !.Config.WorkerConfig = {workerConfig}]},
              err |-> ""]
        ELSE IF serviceType = SERVICE_TYPE_JOB
        THEN [svc |-> {[serviceProto EXCEPT !.Config.JobConfig = {jobConfig}]},
              err |-> ""]
        ELSE [svc |-> {}, err |-> "invalid service type"]

\* The one element of a singleton set.
The(S) == CHOOSE x \in S : TRUE

\* The service loop of AppProtoFromYaml for one entry: [svc, err]
serviceEntryProto(name, service) ==
    LET t == protoEnumFromType(name, service)
    IN  IF t.err # ""
        THEN [svc |-> {}, err |-> "error getting service type"]
        ELSE LET p == serviceProtoFromConfig(service, t.type)
             IN  IF p.err # ""
                 THEN [svc |-> {}, err |-> "error casting service config"]
                 ELSE p

\* AppProtoFromYaml with the predeploy entry's kind resolved from its own
\* `type` instead of being fixed to Job.
AppProtoFromYaml_predeployByType(yaml) ==
    IF yaml.Services = {}
    THEN Err("porter yaml is missing services")
    ELSE LET m == The(yaml.Services)
             entries == [n \in DOMAIN m |-> serviceEntryProto(n, m[n])]
             failed == { n \in DOMAIN m : entries[n].err # "" }
             pre == { serviceProtoFromConfig(p, protoEnumFromType(<<>>, p).type) :
                        p \in yaml.Predeploy }
         IN  IF failed # {}
             THEN Err((entries[CHOOSE n \in failed : TRUE]).err)
             ELSE IF \E p \in pre : p.err # ""
             THEN Err("error casting predeploy config")
             ELSE Ok([ Name |-> yaml.Name,
                       Build |-> { [ Context |-> b.Context, Method |-> b.Method,
                                     Builder |-> b.Builder, Buildpacks |-> b.Buildpacks,
                                     Dockerfile |-> b.Dockerfile ] : b \in yaml.Build },
                       Image |-> { [Repository |-> i.Repository, Tag |-> i.Tag] :
                                     i \in yaml.Image },
                       Services |-> [n \in DOMAIN m |-> The(entries[n].svc)],
                       Predeploy |-> UNION { p.svc : p \in pre } ])

\* AppProtoFromYaml on an unmarshalled document: [app, err]
AppProtoFromYaml(yaml) ==
    IF yaml.Services = {}
    THEN Err("porter yaml is missing services")
    ELSE LET m == The(yaml.Services)
             entries == [n \in DOMAIN m |-> serviceEntryProto(n, m[n])]
             failed == { n \in DOMAIN m : entries[n].err # "" }
             pre == { serviceProtoFromConfig(p, SERVICE_TYPE_JOB) : p \in yaml.Predeploy }
         IN  IF failed # {}
             THEN Err((entries[CHOOSE n \in failed : TRUE]).err)
             ELSE IF \E p \in pre : p.err # ""
             THEN Err("error casting predeploy config")
             ELSE Ok([ Name |-> yaml.Name,
                       Build |-> { [ Context |-> b.Context, Method |-> b.Method,
                                     Builder |-> b.Builder, Buildpacks |-> b.Buildpacks,
                                     Dockerfile |-> b.Dockerfile ] : b \in yaml.Build },
                       Image |-> { [Repository |-> i.Repository, Tag |-> i.Tag] :
                                     i \in yaml.Image },
                       Services |-> [n \in DOMAIN m |-> The(entries[n].svc)],
                       Predeploy |-> UNION { p.svc : p \in pre } ])

----------------------------------------------------------------------------
(* Specification of the canonicalizer: a document is drawn, then converted. *)

NotRun == [app |-> {}, err |-> "not run"]

\* No editing session is open while the canonicalizer or the adapter is
\* checked.
SessionIdle ==
    /\ formData = 0
    /\ sourceType = "none"
    /\ deploymentTarget = FALSE
    /\ validatedAppProto = {}
    /\ deployError = ""
    /\ showGHAModal = FALSE
    /\ isDeploying = FALSE
    /\ calls = <<>>
    /\ createdApps = <<>>
    /\ appliedApps = <<>>

\* clientAppToProto is not called while another part is checked.
FormIdle ==
    /\ porterAppFormData = {}
    /\ formProto = {}
    /\ formPc = "idle"

\* No validate request is served while another part is checked.
HandlerIdle ==
    /\ request = {}
    /\ project = {}
    /\ sentApp = {}
    /\ ccpRequests = <<>>
    /\ ccpResp = {}
    /\ response = {}
    /\ handlerPc = "idle"

\* No sub-event is stored while another part is checked.
EventIdle ==
    /\ subEvents = <<>>
    /\ lastAppend = {}

\* No build runs while another part is checked.
BuildIdle ==
    /\ buildInp = {}
    /\ buildCalls = <<>>
    /\ buildErr = ""
    /\ buildPc = "idle"

\* No bearer token is asked for while another part is checked.
TokenIdle ==
    /\ tokenCache = {}
    /\ clock = 0
    /\ tokenCall = {}
    /\ generated = 0

\* The controller tab is not mounted while another part is checked.
PodIdle ==
    /\ pods = <<>>
    /\ selectedPod = {}
    /\ userSelectedPod = FALSE
    /\ podRequests = <<>>

\* The parts that are idle while the application model is checked.
RestIdle == EventIdle /\ BuildIdle /\ TokenIdle /\ PodIdle

\* The form model adapter is idle while the canonicalizer is checked.
ReconIdle ==
    /\ proto = {}
    /\ overrides = {}
    /\ clientApp = {}
    /\ clientApp2 = {}
    /\ reconPc = "idle"

InitCanon ==
    /\ ReconIdle
    /\ SessionIdle
    /\ FormIdle
    /\ HandlerIdle
    /\ RestIdle
    /\ \E top \in TopLevelInputs, m \in ServiceMaps : porterYaml = PorterYAML(top, m)
    /\ appProto = NotRun
    /\ canonPc = "input"

Canonicalize ==
    /\ canonPc = "input"
    /\ appProto' = AppProtoFromYaml(porterYaml)
    /\ canonPc' = "done"
    /\ UNCHANGED <<porterYaml, reconVars, sessionVars, formVars, handlerVars, restVars>>

NextCanon == Canonicalize

SpecCanon == InitCanon /\ [][NextCanon]_vars

----------------------------------------------------------------------------
(* Properties of the canonicalizer *)

\* The document's service map (empty when the key is absent).
YamlServices == IF porterYaml.Services = {} THEN <<>> ELSE The(porterYaml.Services)

Returned == canonPc = "done" /\ appProto.app # {}
Rejected == canonPc = "done" /\ appProto.app = {} /\ appProto.err # ""

\* The kind the returned specification gives service n.
KindOf(n) == The(appProto.app).Services[n].Type

TypeTable ==
    [t \in {"web", "worker", "job"} |->
        IF t = "web" THEN SERVICE_TYPE_WEB
        ELSE IF t = "worker" THEN SERVICE_TYPE_WORKER ELSE SERVICE_TYPE_JOB]

\* C1: a service with a non-empty `type` gets its kind from the table
\* web->Web, worker->Worker, job->Job whatever its name contains, and a
\* document holding any other non-empty literal is rejected as a whole.
C1_ExplicitTypeDecides ==
    canonPc = "done" /\ porterYaml.Services # {} =>
        /\ (\E n \in DOMAIN YamlServices :
                YamlServices[n].Type \notin {"", "web", "worker", "job"}) => Rejected
        /\ Returned =>
             \A n \in DOMAIN YamlServices :
                 YamlServices[n].Type # "" => KindOf(n) = TypeTable[YamlServices[n].Type]

\* C1 witness: the service "web-job" typed worker was returned as a Worker.
C1_Witness ==
    /\ Returned
    /\ <<"w", "e", "b", "-", "j", "o", "b">> \in DOMAIN YamlServices
    /\ YamlServices[<<"w", "e", "b", "-", "j", "o", "b">>].Type = "worker"
    /\ KindOf(<<"w", "e", "b", "-", "j", "o", "b">>) = SERVICE_TYPE_WORKER

\* C2: a service with no `type` gets the kind of the first name rule that
\* matches, in the order web, wkr, job ("web-job" is a Web); a document with
\* an untyped service that no rule matches is rejected.
C2_NameRulesInOrder ==
    canonPc = "done" /\ porterYaml.Services # {} =>
        LET untyped == { n \in DOMAIN YamlServices : YamlServices[n].Type = "" }
        IN  /\ (\E n \in untyped : /\ ~Contains(n, Str_web)
                                   /\ ~Contains(n, Str_wkr)
                                   /\ ~Contains(n, Str_job)) => Rejected
            /\ Returned =>
                 \A n \in untyped :
                     /\ Contains(n, Str_web) => KindOf(n) = SERVICE_TYPE_WEB
                     /\ ~Contains(n, Str_web) /\ Contains(n, Str_wkr)
                            => KindOf(n) = SERVICE_TYPE_WORKER
                     /\ ~Contains(n, Str_web) /\ ~Contains(n, Str_wkr)
                            /\ Contains(n, Str_job) => KindOf(n) = SERVICE_TYPE_JOB

\* C2 witness: the untyped services "web-job" and "wkr-job" were returned as
\* a Web and a Worker.
C2_Witness ==
    /\ Returned
    /\ DOMAIN YamlServices = { <<"w", "e", "b", "-", "j", "o", "b">>,
                               <<"w", "k", "r", "-", "j", "o", "b">> }
    /\ \A n \in DOMAIN YamlServices : YamlServices[n].Type = ""
    /\ KindOf(<<"w", "e", "b", "-", "j", "o", "b">>) = SERVICE_TYPE_WEB
    /\ KindOf(<<"w", "k", "r", "-", "j", "o", "b">>) = SERVICE_TYPE_WORKER

\* Whether a service entry sets a field that belongs to another kind than
\* `kind`: cron, allowConcurrent on a Web or Worker; domains, healthCheck on
\* a Worker or Job; autoscaling on a Job.
HasForeignField(service, kind) ==
    \/ /\ kind \in {SERVICE_TYPE_WEB, SERVICE_TYPE_WORKER}
       /\ (service.Cron # "" \/ service.AllowConcurrent)
    \/ /\ kind \in {SERVICE_TYPE_WORKER, SERVICE_TYPE_JOB}
       /\ (service.Domains # <<>> \/ service.HealthCheck # {})
    \/ /\ kind = SERVICE_TYPE_JOB
       /\ service.Autoscaling # {}

\* C3: a document with a service that sets a field of another kind than its
\* resolved kind is rejected.
C3_ForeignFieldRejected ==
    canonPc = "done" /\ porterYaml.Services # {} =>
        ((\E n \in DOMAIN YamlServices :
             LET t == protoEnumFromType(n, YamlServices[n])
             IN  t.err = "" /\ HasForeignField(YamlServices[n], t.type))
         => Rejected)

\* The config variants a canonical service has populated.
Variants(svc) ==
    { v \in {"WebConfig", "WorkerConfig", "JobConfig"} : svc.Config[v] # {} }

VariantOf(kind) ==
    IF kind = SERVICE_TYPE_WEB THEN "WebConfig"
    ELSE IF kind = SERVICE_TYPE_WORKER THEN "WorkerConfig"
    ELSE IF kind = SERVICE_TYPE_JOB THEN "JobConfig" ELSE "none"

\* C4: every service of a returned specification, the predeploy included,
\* has exactly one config variant populated, the one of its kind.
C4_OneVariantOfItsKind ==
    Returned =>
        LET app == The(appProto.app)
        IN  /\ \A n \in DOMAIN app.Services :
                  /\ app.Services[n].Type \in ServiceTypes
                  /\ Variants(app.Services[n]) = {VariantOf(app.Services[n].Type)}
            /\ \A p \in app.Predeploy :
                  p.Type = SERVICE_TYPE_JOB /\ Variants(p) = {"JobConfig"}

\* C4 witness: a returned specification with a Worker that the document gave
\* domains, and a Job.
C4_Witness ==
    /\ Returned
    /\ \E n, k \in DOMAIN YamlServices :
          /\ KindOf(n) = SERVICE_TYPE_WORKER
          /\ YamlServices[n].Domains # <<>>
          /\ KindOf(k) = SERVICE_TYPE_JOB

\* C14: a document with both `build` and `image`, or with neither, is
\* rejected, and every returned specification has exactly one of image and
\* build.
C14_ExactlyOneSource ==
    canonPc = "done" =>
        /\ ((porterYaml.Build # {}) = (porterYaml.Image # {})) => Rejected
        /\ Returned =>
             \A a \in appProto.app : (a.Build # {}) # (a.Image # {})

\* C15: a document without `name` and a document without `services` are both
\* rejected.
C15_NameAndServicesRequired ==
    canonPc = "done" /\ (porterYaml.Name = "" \/ porterYaml.Services = {}) => Rejected

\* C16: the returned specification has a predeploy exactly when the document
\* has one; it is a Job with a job config whatever the entry's `type`, and its
\* cron and concurrency flag are the entry's (no cron and not concurrent when
\* the entry omits them).
C16_PredeployIsAJob ==
    Returned =>
        LET app == The(appProto.app)
        IN  /\ (app.Predeploy # {}) = (porterYaml.Predeploy # {})
            /\ \A p \in app.Predeploy :
                  /\ p.Type = SERVICE_TYPE_JOB
                  /\ Variants(p) = {"JobConfig"}
                  /\ \A y \in porterYaml.Predeploy, j \in p.Config.JobConfig :
                        /\ j.Cron = y.Cron
                        /\ j.AllowConcurrent = y.AllowConcurrent
                        /\ p.Run = y.Run

\* C16 witnesses: a document whose predeploy entry is typed web was returned
\* with a Job predeploy; one whose entry sets neither cron nor the concurrency
\* flag was returned with a predeploy that has neither.
C16_Witness ==
    /\ Returned
    /\ \E y \in porterYaml.Predeploy : y.Type = "web" /\ y.Cron # ""
    /\ \E p \in The(appProto.app).Predeploy : p.Type = SERVICE_TYPE_JOB

C16_WitnessOmitted ==
    /\ Returned
    /\ \E y \in porterYaml.Predeploy : y.Type = "" /\ y.Cron = "" /\ ~y.AllowConcurrent
    /\ \E p \in The(appProto.app).Predeploy :
          \E j \in p.Config.JobConfig : j.Cron = "" /\ ~j.AllowConcurrent

\* C17: the returned specification's services are the document's, each with
\* its resolved kind and with run, instances, cpuCores, ramMegabytes and port
\* equal to the document's values (zero when omitted), domains the document's
\* list (empty when omitted) and the booleans the document's (false when
\* omitted).
C17_ServicesCarryDocumentValues ==
    Returned =>
        LET app == The(appProto.app)
        IN  /\ DOMAIN app.Services = DOMAIN YamlServices
            /\ \A n \in DOMAIN YamlServices :
                  LET s == app.Services[n]
                      y == YamlServices[n]
                  IN  /\ s.Type = protoEnumFromType(n, y).type
                      /\ s.Run = y.Run
                      /\ SameInteger(y.Instances, s.Instances)
                      /\ s.CpuCores = y.CpuCores
                      /\ SameInteger(y.RamMegabytes, s.RamMegabytes)
                      /\ SameInteger(y.Port, s.Port)
                      /\ \A w \in s.Config.WebConfig :
                            Len(w.Domains) = Len(y.Domains)
                      /\ \A j \in s.Config.JobConfig :
                            j.AllowConcurrent = y.AllowConcurrent

\* C18: the build of a returned specification has one variant active: a pack
\* build carries no dockerfile path and a docker build carries no builder and
\* no buildpacks.
C18_OneBuildVariant ==
    Returned =>
        \A b \in The(appProto.app).Build :
            /\ b.Method = "pack" => b.Dockerfile = ""
            /\ b.Method = "docker" => b.Builder = "" /\ b.Buildpacks = <<>>

\* C24: every service of a returned specification, the predeploy included,
\* has instances, ramMegabytes, port and cpuCores of at least zero.
C24_NumericsNotNegative ==
    Returned =>
        LET app == The(appProto.app)
            all == { app.Services[n] : n \in DOMAIN app.Services } \cup app.Predeploy
        IN  \A s \in all :
                /\ s.Instances >= 0
                /\ s.RamMegabytes >= 0
                /\ s.Port >= 0
                /\ s.CpuCores >= 0

----------------------------------------------------------------------------
(* The form model adapter: PorterApp -> ClientPorterApp *)

Str_predeploy == <<"p", "r", "e", "-", "d", "e", "p", "l", "o", "y">>

\* The service names of the specifications and client models reconciled, in
\* the order Object.entries lists them.
ReconcileNames == << <<"w", "e", "b">>, <<"j", "o", "b">> >>

Range(seq) == { seq[i] : i \in DOMAIN seq }

\* The most services a prior client model holds.
MaxOverrides == 2

\* A form value with its provenance: {value, readOnly}.
Field(v, ro) == [value |-> v, readOnly |-> ro]

\* The string the client uses for a service type.
ClientType(type) ==
    IF type = SERVICE_TYPE_WEB THEN "web"
    ELSE IF type = SERVICE_TYPE_WORKER THEN "worker"
    ELSE IF type = SERVICE_TYPE_JOB THEN "job" ELSE "unknown"

\* isPredeployService
isPredeployService(s) == s.config.type = "predeploy"

IsNotPredeployService(s) == ~isPredeployService(s)

\* serializedServiceFromProto({name, service, isPredeploy})
serializedServiceFromProto(name, service, isPredeploy) ==
    [ name |-> name,
      run |-> service.Run,
      instances |-> service.Instances,
      config |-> [type |-> IF isPredeploy THEN "predeploy" ELSE ClientType(service.Type)] ]

\* serializeService: a client service with every value unwrapped.
serializeService(s) ==
    [ name |-> s.name.value,
      run |-> s.run.value,
      instances |-> s.instances.value,
      config |-> s.config ]

\* deserializeService({service, override}), override {} when not given: a
\* value the service sets is taken from it and is read-only; a value it
\* leaves at its zero is the override's when the override is of the same
\* kind, and editable.
deserializeService(service, override) ==
    LET applies == override # {} /\ The(override).config.type = service.config.type
        o == The(override)
    IN  [ name |-> Field(service.name, TRUE),
          run |-> IF service.run # "" THEN Field(service.run, TRUE)
                  ELSE IF applies THEN Field(o.run, FALSE)
                  ELSE Field(service.run, FALSE),
          instances |-> IF service.instances # 0 THEN Field(service.instances, TRUE)
                        ELSE IF applies THEN Field(o.instances, FALSE)
                        ELSE Field(service.instances, FALSE),
          config |-> service.config ]

\* Array.prototype.find: the element of seq at the least of the indices
\* `hits`, as an optional.
Find(seq, hits) ==
    IF hits = {} THEN {}
    ELSE {seq[CHOOSE i \in hits : \A j \in hits : i <= j]}

\* overrides?.services.find(...) with any service accepted, whatever its name.
findOverride_anyName(ov, svc) ==
    IF ov = {} THEN {}
    ELSE Find(The(ov).services, DOMAIN The(ov).services)

\* overrides?.services.find((s) => s.name.value === svc.name)
findOverride(ov, svc) ==
    IF ov = {} THEN {}
    ELSE LET svcs == The(ov).services
         IN  Find(svcs, { i \in DOMAIN svcs : svcs[i].name.value = svc.name })

\* The body of the map over the services with the arguments of
\* deserializeService exchanged.
reconcileService_swapped(svc, ov) ==
    LET override == findOverride(ov, svc)
    IN  IF override # {}
        THEN deserializeService(serializeService(The(override)), {svc})
        ELSE deserializeService(svc, {})

\* The body of the map over the services of the specification.
reconcileService(svc, ov) ==
    LET override == findOverride(ov, svc)
    IN  IF override # {}
        THEN deserializeService(svc, {serializeService(The(override))})
        ELSE deserializeService(svc, {})

\* Object.entries(proto.services): the names in order.
Entries(p) ==
    LET Declared(n) == n \in DOMAIN p.Services
    IN  SelectSeq(ReconcileNames, Declared)

\* The services of the client model, with the services of the overrides kept
\* as well.
reconciledServices_keepStale(p, ov) ==
    LET names == Entries(p)
        kept == [i \in 1..Len(names) |->
                    reconcileService(
                        serializedServiceFromProto(names[i], p.Services[names[i]], FALSE),
                        ov)]
        Stale(s) == s.name.value \notin DOMAIN p.Services
    IN  IF ov = {} THEN kept ELSE kept \o SelectSeq(The(ov).services, Stale)

\* The services of the client model: one for every service of the
\* specification.
reconciledServices(p, ov) ==
    LET names == Entries(p)
    IN  [i \in 1..Len(names) |->
            reconcileService(
                serializedServiceFromProto(names[i], p.Services[names[i]], FALSE),
                ov)]

DefaultBuild ==
    [method |-> "pack", context |-> "./", buildpacks |-> <<>>, builder |-> ""]

\* clientBuildFromProto: {} when there is no build or it does not validate.
clientBuildFromProto(build) ==
    IF build = {} THEN {}
    ELSE LET b == The(build)
         IN  IF b.Method = "pack"
             THEN {[ method |-> "pack", context |-> b.Context,
                     buildpacks |-> [i \in 1..Len(b.Buildpacks) |->
                                        [name |-> b.Buildpacks[i],
                                         buildpack |-> b.Buildpacks[i]]],
                     builder |-> b.Builder ]}
             ELSE IF b.Method = "docker"
             THEN {[ method |-> "docker", context |-> b.Context,
                     dockerfile |-> b.Dockerfile ]}
             ELSE {}

\* !overrides?.predeploy, inverted.
noPredeployOverride_inverted(ov) == ~(ov = {} \/ The(ov).predeploy = {})

\* !overrides?.predeploy
noPredeployOverride(ov) == ov = {} \/ The(ov).predeploy = {}

\* clientAppFromProto(proto, overrides)
clientAppFromProto(p, ov) ==
    LET services == reconciledServices(p, ov)
        build == clientBuildFromProto(p.Build)
        app == [ name |-> p.Name,
                 services |-> services,
                 build |-> IF build = {} THEN DefaultBuild ELSE The(build) ]
    IN  IF noPredeployOverride(ov)
        THEN app
        ELSE LET predeployOverrides ==
                     IF ov = {} \/ The(ov).predeploy = {} THEN {}
                     ELSE {serializeService(The(The(ov).predeploy))}
                 predeploy ==
                     { deserializeService(
                           serializedServiceFromProto(Str_predeploy, pd, TRUE),
                           predeployOverrides) : pd \in p.Predeploy }
             IN  [app EXCEPT !.services =
                     IF predeploy = {} THEN services
                     ELSE Append(services, The(predeploy))]

\* The client model as the overrides of the next reconciliation: its services
\* and its predeploy, told apart by isPredeployService.
DetectedServicesOf(app) ==
    {[ services |-> SelectSeq(app.services, IsNotPredeployService),
       predeploy |-> Find(app.services,
                          { i \in DOMAIN app.services :
                                isPredeployService(app.services[i]) }) ]}

----------------------------------------------------------------------------
(* Specification of the form model adapter: a specification and a prior     *)
(* client model are drawn, reconciled, and the result is reconciled again.  *)

\* The documents the reconciled specifications are canonicalized from.
ReconServiceInputs ==
    { PlainService(t, run, n) : t \in {"web", "worker", "job"},
                                run \in {"", "src"}, n \in {0, 2} }

ReconServiceMaps ==
    UNION { [ns -> ReconServiceInputs] : ns \in SUBSET Range(ReconcileNames) }

ReconTopLevelInputs ==
    LET base == [ Name |-> "js-test-app", hasServices |-> TRUE,
                  Image |-> ImageInputs, Build |-> {}, Predeploy |-> {} ]
    IN  { base,
          [base EXCEPT !.Build = BuildInputs, !.Image = {}],
          [base EXCEPT !.Predeploy = {PlainService("", "ls", 0)}],
          [base EXCEPT !.Predeploy = {PlainService("", "", 0)}] }

\* The services of a prior client model: the user's values, not read-only.
OverrideInputs ==
    { [ name |-> Field(n, FALSE), run |-> Field("usr", FALSE),
        instances |-> Field(5, FALSE), config |-> [type |-> t] ] :
        n \in Range(ReconcileNames), t \in {"web", "worker", "job"} }

PredeployOverrideInputs ==
    { [ name |-> Field(Str_predeploy, FALSE), run |-> Field("usr", FALSE),
        instances |-> Field(5, FALSE), config |-> [type |-> "predeploy"] ] }

BoundedSeq(S, n) == UNION { [1..k -> S] : k \in 0..n }

CanonIdle ==
    /\ porterYaml = {}
    /\ appProto = NotRun
    /\ canonPc = "idle"

InitRecon ==
    /\ CanonIdle
    /\ SessionIdle
    /\ FormIdle
    /\ HandlerIdle
    /\ RestIdle
    /\ \E top \in ReconTopLevelInputs, m \in ReconServiceMaps :
          proto = AppProtoFromYaml(PorterYAML(top, m)).app
    /\ \/ overrides = {}
       \/ \E svcs \in BoundedSeq(OverrideInputs, MaxOverrides),
             pre \in {{}} \cup { {x} : x \in PredeployOverrideInputs } :
             overrides = {[services |-> svcs, predeploy |-> pre]}
    /\ clientApp = {}
    /\ clientApp2 = {}
    /\ reconPc = "input"

\* toClientModel(spec, m)
Reconcile ==
    /\ reconPc = "input"
    /\ clientApp' = {clientAppFromProto(The(proto), overrides)}
    /\ reconPc' = "once"
    /\ UNCHANGED <<proto, overrides, clientApp2, canonVars, sessionVars, formVars,
                 handlerVars, restVars>>

\* toClientModel(spec, toClientModel(spec, m))
ReconcileAgain ==
    /\ reconPc = "once"
    /\ clientApp2' = {clientAppFromProto(The(proto), DetectedServicesOf(The(clientApp)))}
    /\ reconPc' = "twice"
    /\ UNCHANGED <<proto, overrides, clientApp, canonVars, sessionVars, formVars,
                 handlerVars, restVars>>

NextRecon == Reconcile \/ ReconcileAgain

SpecRecon == InitRecon /\ [][NextRecon]_vars

----------------------------------------------------------------------------
(* Properties of the form model adapter *)

Reconciled == reconPc \in {"once", "twice"}

\* The services of the reconciled client model, the predeploy left out.
ClientServices == SelectSeq(The(clientApp).services, IsNotPredeployService)

\* The prior overrides' services (none when the overrides are null).
PriorServices == IF overrides = {} THEN <<>> ELSE The(overrides).services

\* The values a user's override holds; the specifications never hold them.
UserRuns == {"usr"}
UserInstances == {5}

\* Whether the prior overrides hold a service of this name and kind.
PriorWith(name, type) ==
    \E i \in DOMAIN PriorServices :
        /\ PriorServices[i].name.value = name
        /\ PriorServices[i].config.type = type

C6_ServiceNamesAreTheSpecs ==
    Reconciled =>
        /\ { ClientServices[i].name.value : i \in DOMAIN ClientServices }
               = DOMAIN The(proto).Services
        /\ Len(ClientServices) = Cardinality(DOMAIN The(proto).Services)

\* C6 witness: one service of the specification has no override and one
\* override has no service of the specification.
C6_Witness ==
    /\ Reconciled
    /\ \E n \in DOMAIN The(proto).Services :
          \A j \in DOMAIN PriorServices : PriorServices[j].name.value # n
    /\ \E j \in DOMAIN PriorServices :
          PriorServices[j].name.value \notin DOMAIN The(proto).Services

HasPredeploy(app) == \E i \in DOMAIN app.services : isPredeployService(app.services[i])

\* C7: the client model has a predeploy exactly when the specification has
\* one, whatever the prior overrides hold.
C7_PredeployIffSpecHasOne ==
    Reconciled => (HasPredeploy(The(clientApp)) <=> The(proto).Predeploy # {})

SpecServiceOf(s) ==
    IF isPredeployService(s) THEN The(The(proto).Predeploy)
    ELSE The(proto).Services[s.name.value]

----------------------------------------------------------------------------
(* The CreateApp editing session: onSubmit, createAndApply, the modal.      *)
(* An invocation of onSubmit or of deployPorterApp is an entry of `calls`;  *)
(* it stops at each await and goes on when the awaited request resolves.    *)

\* The most submissions and modal deployments of one session.
MaxCalls == 3

\* The most edits of the form in one session.
MaxEdits == 1

\* What validateApp resolves to for the form data d.
Validated(d) == [name |-> "js-test-app", data |-> d]

ValidateServerError == "validation: error of the response"
ValidateGenericError ==
    "An error occurred while validating your application. Please try again."
DeployServerError == "deploy: error of the response"
DeployGenericError ==
    "An error occurred while deploying your application. Please try again."

\* How an awaited request ends: resolved, rejected with an axios error that
\* carries response.data.error, rejected with anything else.
Outcomes == {"ok", "axios", "other"}

InitSession ==
    /\ CanonIdle
    /\ ReconIdle
    /\ FormIdle
    /\ HandlerIdle
    /\ RestIdle
    /\ formData = 0
    /\ sourceType \in {"github", "docker-registry"}
    /\ deploymentTarget \in BOOLEAN
    /\ validatedAppProto = {}
    /\ deployError = ""
    /\ showGHAModal = FALSE
    /\ isDeploying = FALSE
    /\ calls = <<>>
    /\ createdApps = <<>>
    /\ appliedApps = <<>>

\* The user changes the form.
EditForm ==
    /\ formData < MaxEdits
    /\ formData' = formData + 1
    /\ UNCHANGED <<sourceType, deploymentTarget, validatedAppProto, deployError,
                   showGHAModal, isDeploying, calls, createdApps, appliedApps,
                   canonVars, reconVars,
                   formVars, handlerVars, restVars>>

\* The hook useDefaultDeploymentTarget gets its target.
DeploymentTargetLoads ==
    /\ ~deploymentTarget
    /\ deploymentTarget' = TRUE
    /\ UNCHANGED <<formData, sourceType, validatedAppProto, deployError,
                   showGHAModal, isDeploying, calls, createdApps, appliedApps,
                   canonVars, reconVars,
                   formVars, handlerVars, restVars>>

\* onSubmit up to `await validateApp(data)`.
Submit ==
    /\ Len(calls) < MaxCalls
    /\ deployError' = ""
    /\ calls' = Append(calls, [kind |-> "submit", data |-> formData, app |-> {},
                               pc |-> "validating", validation |-> "pending",
                               returned |-> "none"])
    /\ UNCHANGED <<formData, sourceType, deploymentTarget, validatedAppProto,
                   showGHAModal, isDeploying, createdApps, appliedApps,
                   canonVars, reconVars,
                   formVars, handlerVars, restVars>>

\* createAndApply up to `await api.createApp`: where the invocation stands
\* next. It returns at once without an application or a deployment target.
CreateAndApplyPc(app) ==
    IF app = {} \/ ~deploymentTarget THEN "done" ELSE "creating"

\* What createAndApply has returned when it stands at pc: false when it
\* returned at once, nothing yet otherwise.
ReturnedAt(pc) == IF pc = "done" THEN "false" ELSE "none"

\* ValidateResolves with onSubmit going on to createAndApply whatever the
\* source is.
ValidateResolves_alwaysDeploy(i) ==
    /\ calls[i].pc = "validating"
    /\ \E outcome \in Outcomes :
          IF outcome = "ok"
          THEN /\ validatedAppProto' = {Validated(calls[i].data)}
               /\ LET app == {Validated(calls[i].data)}
                      pc == CreateAndApplyPc(app)
                  IN  /\ isDeploying' = (pc = "creating")
                      /\ createdApps' = IF pc = "creating"
                                        THEN Append(createdApps, The(app))
                                        ELSE createdApps
                      /\ calls' = [calls EXCEPT ![i].pc = pc,
                                                ![i].app = app,
                                                ![i].validation = "ok",
                                                ![i].returned = ReturnedAt(pc)]
                      /\ showGHAModal' = (sourceType = "github")
               /\ UNCHANGED deployError
          ELSE /\ deployError' = IF outcome = "axios" THEN ValidateServerError
                                 ELSE ValidateGenericError
               /\ calls' = [calls EXCEPT ![i].pc = "done", ![i].validation = outcome]
               /\ UNCHANGED <<validatedAppProto, showGHAModal, isDeploying, createdApps>>
    /\ UNCHANGED <<formData, sourceType, deploymentTarget, appliedApps,
                   canonVars, reconVars,
                   formVars, handlerVars, restVars>>

\* ValidateResolves with the form reset when the validation fails.
ValidateResolves_resetsForm(i) ==
    /\ calls[i].pc = "validating"
    /\ \E outcome \in Outcomes :
          IF outcome = "ok"
          THEN /\ validatedAppProto' = {Validated(calls[i].data)}
               /\ IF sourceType = "github"
                  THEN /\ showGHAModal' = TRUE
                       /\ calls' = [calls EXCEPT ![i].pc = "done",
                                                 ![i].validation = "ok"]
                       /\ UNCHANGED <<isDeploying, createdApps>>
                  ELSE LET app == {Validated(calls[i].data)}
                           pc == CreateAndApplyPc(app)
                       IN  /\ isDeploying' = (pc = "creating")
                           /\ createdApps' = IF pc = "creating"
                                             THEN Append(createdApps, The(app))
                                             ELSE createdApps
                           /\ calls' = [calls EXCEPT ![i].pc = pc,
                                                     ![i].app = app,
                                                     ![i].validation = "ok",
                                                     ![i].returned = ReturnedAt(pc)]
                           /\ UNCHANGED showGHAModal
               /\ UNCHANGED <<deployError, formData>>
          ELSE /\ deployError' = IF outcome = "axios" THEN ValidateServerError
                                 ELSE ValidateGenericError
               /\ calls' = [calls EXCEPT ![i].pc = "done", ![i].validation = outcome]
               /\ formData' = 0
               /\ UNCHANGED <<validatedAppProto, showGHAModal, isDeploying, createdApps>>
    /\ UNCHANGED <<sourceType, deploymentTarget, appliedApps,
                   canonVars, reconVars,
                   formVars, handlerVars, restVars>>

\* The validateApp of invocation i resolves, and onSubmit runs on to its next
\* await or to its end.
ValidateResolves(i) ==
    /\ calls[i].pc = "validating"
    /\ \E outcome \in Outcomes :
          IF outcome = "ok"
          THEN /\ validatedAppProto' = {Validated(calls[i].data)}
               /\ IF sourceType = "github"
                  THEN /\ showGHAModal' = TRUE
                       /\ calls' = [calls EXCEPT ![i].pc = "done",
                                                 ![i].validation = "ok"]
                       /\ UNCHANGED <<isDeploying, createdApps>>
                  ELSE LET app == {Validated(calls[i].data)}
                           pc == CreateAndApplyPc(app)
                       IN  /\ isDeploying' = (pc = "creating")
                           /\ createdApps' = IF pc = "creating"
                                             THEN Append(createdApps, The(app))
                                             ELSE createdApps
                           /\ calls' = [calls EXCEPT ![i].pc = pc,
                                                     ![i].app = app,
                                                     ![i].validation = "ok",
                                                     ![i].returned = ReturnedAt(pc)]
                           /\ UNCHANGED showGHAModal
               /\ UNCHANGED deployError
          ELSE /\ deployError' = IF outcome = "axios" THEN ValidateServerError
                                 ELSE ValidateGenericError
               /\ calls' = [calls EXCEPT ![i].pc = "done", ![i].validation = outcome]
               /\ UNCHANGED <<validatedAppProto, showGHAModal, isDeploying, createdApps>>
    /\ UNCHANGED <<formData, sourceType, deploymentTarget, appliedApps,
                   canonVars, reconVars,
                   formVars, handlerVars, restVars>>

\* deployPorterApp of the GithubActionModal: createAndApply with the
\* validatedAppProto of this render, up to `await api.createApp`.
ModalDeploy ==
    /\ showGHAModal
    /\ sourceType = "github"
    /\ Len(calls) < MaxCalls
    /\ LET pc == CreateAndApplyPc(validatedAppProto)
       IN  /\ isDeploying' = (pc = "creating")
           /\ createdApps' = IF pc = "creating"
                             THEN Append(createdApps, The(validatedAppProto))
                             ELSE createdApps
           /\ calls' = Append(calls, [kind |-> "modal", data |-> formData,
                                      app |-> validatedAppProto, pc |-> pc,
                                      validation |-> "none",
                                      returned |-> ReturnedAt(pc)])
    /\ UNCHANGED <<formData, sourceType, deploymentTarget, validatedAppProto,
                   deployError, showGHAModal, appliedApps, canonVars, reconVars,
                   formVars, handlerVars, restVars>>

\* closeModal of the GithubActionModal.
CloseModal ==
    /\ showGHAModal
    /\ showGHAModal' = FALSE
    /\ UNCHANGED <<formData, sourceType, deploymentTarget, validatedAppProto,
                   deployError, isDeploying, calls, createdApps, appliedApps,
                   canonVars, reconVars,
                   formVars, handlerVars, restVars>>

\* The catch and finally of createAndApply after a rejected request.
DeployFailed(i, outcome) ==
    /\ deployError' = IF outcome = "axios" THEN DeployServerError
                      ELSE DeployGenericError
    /\ isDeploying' = FALSE
    /\ calls' = [calls EXCEPT ![i].pc = "done", ![i].returned = "false"]

\* CreateResolves with api.applyApp called although api.createApp failed.
CreateResolves_appliesAnyway(i) ==
    /\ calls[i].pc = "creating"
    /\ \E outcome \in Outcomes :
          IF outcome = "ok"
          THEN /\ appliedApps' = Append(appliedApps, The(calls[i].app))
               /\ calls' = [calls EXCEPT ![i].pc = "applying"]
               /\ UNCHANGED <<deployError, isDeploying>>
          ELSE /\ DeployFailed(i, outcome)
               /\ appliedApps' = Append(appliedApps, The(calls[i].app))
    /\ UNCHANGED <<formData, sourceType, deploymentTarget, validatedAppProto,
                   showGHAModal, createdApps, canonVars, reconVars,
                   formVars, handlerVars, restVars>>

\* The api.createApp of invocation i resolves.
CreateResolves(i) ==
    /\ calls[i].pc = "creating"
    /\ \E outcome \in Outcomes :
          IF outcome = "ok"
          THEN /\ appliedApps' = Append(appliedApps, The(calls[i].app))
               /\ calls' = [calls EXCEPT ![i].pc = "applying"]
               /\ UNCHANGED <<deployError, isDeploying>>
          ELSE /\ DeployFailed(i, outcome)
               /\ UNCHANGED appliedApps
    /\ UNCHANGED <<formData, sourceType, deploymentTarget, validatedAppProto,
                   showGHAModal, createdApps, canonVars, reconVars,
                   formVars, handlerVars, restVars>>

\* The api.applyApp of invocation i resolves.
ApplyResolves(i) ==
    /\ calls[i].pc = "applying"
    /\ \E outcome \in Outcomes :
          IF outcome = "ok"
          THEN /\ isDeploying' = FALSE
               /\ calls' = [calls EXCEPT ![i].pc = "done", ![i].returned = "true"]
               /\ UNCHANGED deployError
          ELSE DeployFailed(i, outcome)
    /\ UNCHANGED <<formData, sourceType, deploymentTarget, validatedAppProto,
                   showGHAModal, createdApps, appliedApps, canonVars, reconVars,
                   formVars, handlerVars, restVars>>

NextSession ==
    \/ EditForm
    \/ DeploymentTargetLoads
    \/ Submit
    \/ ModalDeploy
    \/ CloseModal
    \/ \E i \in DOMAIN calls : ValidateResolves(i)
    \/ \E i \in DOMAIN calls : CreateResolves(i)
    \/ \E i \in DOMAIN calls : ApplyResolves(i)

SpecSession == InitSession /\ [][NextSession]_vars

----------------------------------------------------------------------------
(* Properties of the editing session *)

Submissions == { i \in DOMAIN calls : calls[i].kind = "submit" }

\* C10: once every validation call issued has resolved, the session holds
\* the result of the last one issued only: its validated specification when
\* it succeeded, and no error of an earlier call.
C10_LastSubmissionWins ==
    (/\ Submissions # {}
     /\ \A i \in Submissions : calls[i].validation # "pending")
    => LET last == CHOOSE i \in Submissions : \A j \in Submissions : j <= i
       IN  calls[last].validation = "ok" =>
               /\ validatedAppProto = {Validated(calls[last].data)}
               /\ deployError \notin {ValidateServerError, ValidateGenericError}

\* The invocations of deployPorterApp, the modal's deploy action.
ModalDeploys == { i \in DOMAIN calls : calls[i].kind = "modal" }

\* Whether invocation i is inside createAndApply, between its two requests.
Deploying(i) == calls[i].pc \in {"creating", "applying"}

\* C20 as stated: no invocation of onSubmit goes on from the validated
\* specification to create and apply the application.
C20_SubmitNeverApplies ==
    \A i \in Submissions : ~Deploying(i)

\* C20, amended: with a github source onSubmit stops at the validated
\* specification, and an application is created and applied only by the
\* modal's deploy action; with a registry source there is no such action and
\* every application is created and applied by onSubmit itself.
C20_ApplyActionBySource ==
    /\ Len(appliedApps) <= Len(createdApps)
    /\ sourceType = "github" =>
          /\ \A i \in Submissions : ~Deploying(i) /\ calls[i].app = {}
          /\ Len(createdApps) <= Cardinality(ModalDeploys)
    /\ sourceType = "docker-registry" =>
          /\ ModalDeploys = {}
          /\ Len(createdApps) <= Cardinality(Submissions)

\* C20 witness: with a github source, a submission has ended with its
\* validated specification and the modal's deploy action is applying it.
C20_Witness ==
    /\ sourceType = "github"
    /\ \E i \in Submissions : calls[i].validation = "ok" /\ calls[i].pc = "done"
    /\ \E i \in ModalDeploys : calls[i].pc = "applying"
    /\ appliedApps # <<>>

\* Whether invocation i ends without success in the step: its validation
\* fails, or its createAndApply returns false.
FailsInStep(i) ==
    \/ /\ i \in DOMAIN calls
       /\ calls[i].validation = "pending"
       /\ calls'[i].validation \in {"axios", "other"}
    \/ /\ calls'[i].returned = "false"
       /\ i \in DOMAIN calls => calls[i].returned = "none"

\* C21: whenever an invocation ends without success (its validation fails,
\* createAndApply returns false for want of an application or a deployment
\* target, or createApp or applyApp fails), an error is set for the session.
C21_FailureSetsError ==
    [][\A i \in DOMAIN calls' : FailsInStep(i) => deployError' # ""]_vars

\* The client model of the session: the form's data and its source.
ClientModel == <<formData, sourceType>>

\* C22: the step in which a validation fails changes the error and the state
\* of the invocation only: the form's data and source, the validated
\* specification, the modal and the deployments are what they were, and the
\* form's data is still the submission's when no edit was made meanwhile.
C22_ValidationFailureKeepsModel ==
    [][\A i \in DOMAIN calls :
          (calls[i].validation = "pending" /\ calls'[i].validation \in {"axios", "other"})
          => /\ ClientModel' = ClientModel
             /\ UNCHANGED <<validatedAppProto, showGHAModal, isDeploying,
                            createdApps, appliedApps, deploymentTarget>>
             /\ deployError' \in {ValidateServerError, ValidateGenericError}
             /\ formData' >= calls[i].data]_vars

\* C22 witness: the validation of a submission of an edited form has failed
\* and the form holds the data submitted.
C22_Witness ==
    \E i \in Submissions :
        /\ calls[i].validation \in {"axios", "other"}
        /\ calls[i].data > 0
        /\ formData = calls[i].data
        /\ deployError \in {ValidateServerError, ValidateGenericError}

\* C29: api.applyApp is called only in the step in which api.createApp of the
\* same invocation succeeded, with that invocation's application, which is
\* not null, and with a deployment target; an invocation whose createApp
\* fails calls no applyApp; isDeploying is false when createAndApply returns.
C29_ApplyAfterCreate ==
    [][/\ appliedApps' # appliedApps =>
             \E i \in DOMAIN calls :
                 /\ calls[i].pc = "creating" /\ calls'[i].pc = "applying"
                 /\ calls[i].app # {}
                 /\ deploymentTarget
                 /\ appliedApps' = Append(appliedApps, The(calls[i].app))
                 /\ \E k \in DOMAIN createdApps : createdApps[k] = The(calls[i].app)
       /\ \A i \in DOMAIN calls :
             (calls[i].pc = "creating" /\ calls'[i].pc = "done") =>
                 appliedApps' = appliedApps
       /\ \A i \in DOMAIN calls' :
             (/\ calls'[i].returned # "none"
              /\ i \in DOMAIN calls => calls[i].returned = "none")
             => isDeploying' = FALSE]_vars

\* C29 witness: an invocation has created and applied its application and
\* returned true, and another has returned false after createApp failed.
C29_Witness ==
    /\ \E i \in DOMAIN calls : calls[i].returned = "true"
    /\ \E i \in DOMAIN calls : calls[i].returned = "false" /\ calls[i].app # {}
    /\ Len(appliedApps) < Len(createdApps)
    /\ ~isDeploying

----------------------------------------------------------------------------
(* The form model adapter, outbound: PorterAppFormData -> PorterApp *)

\* The most services the form holds.
MaxFormServices == 2

\* The enum of a client service's config.type; the predeploy is a Job.
ProtoType(type) ==
    IF type = "web" THEN SERVICE_TYPE_WEB
    ELSE IF type = "worker" THEN SERVICE_TYPE_WORKER ELSE SERVICE_TYPE_JOB

\* serviceProto: the porterv1.Service of a serialized service.
serviceProto(s) ==
    [ Run |-> s.run, Type |-> ProtoType(s.config.type), Instances |-> s.instances ]

\* clientBuildToProto: the fields of the build's method; the Build message
\* has its other fields at their zero.
clientBuildToProto(build) ==
    IF build.method = "pack"
    THEN [ Method |-> "pack", Context |-> build.context,
           Buildpacks |-> [i \in 1..Len(build.buildpacks) |->
                              build.buildpacks[i].buildpack],
           Builder |-> build.builder, Dockerfile |-> "" ]
    ELSE [ Method |-> "docker", Context |-> build.context,
           Buildpacks |-> <<>>, Builder |-> "", Dockerfile |-> build.dockerfile ]

\* The reduce of clientAppToProto: the last service of each name.
servicesByName(kept) ==
    LET names == { kept[i].name.value : i \in DOMAIN kept }
        last(n) == CHOOSE i \in DOMAIN kept :
                       /\ kept[i].name.value = n
                       /\ \A j \in DOMAIN kept : kept[j].name.value = n => j <= i
    IN  [n \in names |-> serviceProto(serializeService(kept[last(n)]))]

\* clientAppToProto with the predeploy service left among the services.
clientAppToProto_keepPredeploy(data) ==
    LET app == data.app
        source == data.source
        services == servicesByName(app.services)
        predeploy == Find(app.services,
                          { i \in DOMAIN app.services :
                                isPredeployService(app.services[i]) })
    IN  IF source.type = "github"
        THEN [ Name |-> app.name, Services |-> services,
               Build |-> {clientBuildToProto(app.build)}, Image |-> {},
               Predeploy |-> { serviceProto(serializeService(p)) : p \in predeploy } ]
        ELSE [ Name |-> app.name, Services |-> services,
               Build |-> {},
               Image |-> {[ Repository |-> source.image.repository,
                            Tag |-> source.image.tag ]},
               Predeploy |-> {} ]

\* clientAppToProto(data)
clientAppToProto(data) ==
    LET app == data.app
        source == data.source
        services == servicesByName(SelectSeq(app.services, IsNotPredeployService))
        predeploy == Find(app.services,
                          { i \in DOMAIN app.services :
                                isPredeployService(app.services[i]) })
    IN  IF source.type = "github"
        THEN [ Name |-> app.name, Services |-> services,
               Build |-> {clientBuildToProto(app.build)}, Image |-> {},
               Predeploy |-> { serviceProto(serializeService(p)) : p \in predeploy } ]
        ELSE [ Name |-> app.name, Services |-> services,
               Build |-> {},
               Image |-> {[ Repository |-> source.image.repository,
                            Tag |-> source.image.tag ]},
               Predeploy |-> {} ]

----------------------------------------------------------------------------
(* Specification of clientAppToProto: a form is drawn, then converted. *)

\* The builds of the form; each holds the fields of both methods.
FormBuildInputs ==
    { [ method |-> m, context |-> "./",
        buildpacks |-> <<[name |-> "heroku/nodejs", buildpack |-> "heroku/nodejs"]>>,
        builder |-> "heroku/buildpacks:20", dockerfile |-> "./Dockerfile" ] :
      m \in {"pack", "docker"} }

SourceInputs ==
    { [type |-> "github"],
      [type |-> "docker-registry", image |-> [repository |-> "nginx", tag |-> "latest"]] }

\* The services of the form: locked or edited values, and a predeploy.
FormServiceInputs ==
    { [ name |-> Field(n, TRUE), run |-> v.run, instances |-> v.instances,
        config |-> [type |-> t] ] :
      n \in Range(ReconcileNames), t \in {"web", "job"},
      v \in { [run |-> Field("src", TRUE), instances |-> Field(2, TRUE)],
              [run |-> Field("user", FALSE), instances |-> Field(5, FALSE)] } }
    \cup { [ name |-> Field(Str_predeploy, TRUE), run |-> Field("ls", FALSE),
             instances |-> Field(0, FALSE), config |-> [type |-> "predeploy"] ] }

InitForm ==
    /\ CanonIdle
    /\ ReconIdle
    /\ SessionIdle
    /\ HandlerIdle
    /\ RestIdle
    /\ \E svcs \in BoundedSeq(FormServiceInputs, MaxFormServices),
          b \in FormBuildInputs, src \in SourceInputs :
          porterAppFormData =
              [ app |-> [name |-> "js-test-app", services |-> svcs, build |-> b],
                source |-> src ]
    /\ formProto = {}
    /\ formPc = "input"

ToProto ==
    /\ formPc = "input"
    /\ formProto' = {clientAppToProto(porterAppFormData)}
    /\ formPc' = "done"
    /\ UNCHANGED <<porterAppFormData, canonVars, reconVars, sessionVars,
                   handlerVars, restVars>>

NextForm == ToProto

SpecForm == InitForm /\ [][NextForm]_vars

----------------------------------------------------------------------------
(* Properties of clientAppToProto *)

\* The services of the form that are not the predeploy.
FormServices == SelectSeq(porterAppFormData.app.services, IsNotPredeployService)

FormBuildOneVariant ==
    formPc = "done" =>
        \A b \in The(formProto).Build :
            /\ b.Method = "pack" => b.Dockerfile = ""
            /\ b.Method = "docker" => b.Builder = "" /\ b.Buildpacks = <<>>

----------------------------------------------------------------------------
(* The form's editors: ServiceList, JobTabs, CustomDomains *)

\* The most custom domains one service has in the form.
MaxDomains == 2

\* The services of the form, app.services.
Services == porterAppFormData.app.services

\* isServiceNameDuplicate looking only at the services its own list shows.
isServiceNameDuplicate_includedOnly(services, name) ==
    \E i \in DOMAIN services :
        IsNotPredeployService(services[i]) /\ services[i].name.value = name

\* isServiceNameDuplicate(name), over the services of the field array
isServiceNameDuplicate(services, name) ==
    \E i \in DOMAIN services : services[i].name.value = name

\* deserializeService({service: defaultSerialized({name, type})}): a service
\* with no value from a document, every value editable.
defaultClientService(name, type) ==
    [ name |-> Field(name, FALSE), run |-> Field("", FALSE),
      instances |-> Field(0, FALSE),
      config |-> IF type = "web" THEN [type |-> type, domains |-> <<>>]
                 ELSE IF type = "job"
                 THEN [type |-> type, allowConcurrent |-> Field(FALSE, FALSE)]
                 ELSE [type |-> type] ]

\* The form with its services replaced.
WithServices(services) == [porterAppFormData EXCEPT !.app.services = services]

\* The names the user types into the add-service modal.
AddNames == Range(ReconcileNames) \cup {Str_predeploy}

\* The text the user types into a custom domain.
TypedDomain == "my-app.my-domain.com"

\* The forms the editors start from: the empty form of CreateApp, or one
\* service with values locked by the document.
LoadedServices ==
    { <<>>,
      << [ name |-> Field(<<"w", "e", "b">>, TRUE), run |-> Field("src", TRUE),
           instances |-> Field(2, TRUE),
           config |-> [ type |-> "web",
                        domains |-> << [name |-> Field("test1.example.com", TRUE)] >> ] ] >>,
      << [ name |-> Field(<<"j", "o", "b">>, TRUE), run |-> Field("src", TRUE),
           instances |-> Field(0, FALSE),
           config |-> [type |-> "job", allowConcurrent |-> Field(TRUE, TRUE)] ] >> }

InitEditors ==
    /\ CanonIdle
    /\ ReconIdle
    /\ SessionIdle
    /\ HandlerIdle
    /\ RestIdle
    /\ \E svcs \in LoadedServices, b \in FormBuildInputs, src \in SourceInputs :
          porterAppFormData =
              [ app |-> [name |-> "js-test-app", services |-> svcs, build |-> b],
                source |-> src ]
    /\ formProto = {}
    /\ formPc = "input"

\* What every editor leaves alone.
EditorFrame ==
    /\ formPc = "input"
    /\ UNCHANGED <<formProto, formPc, canonVars, reconVars, sessionVars, handlerVars, restVars>>

\* The "Add service" button of the modal: disabled for a name in use.
AddService(name, type) ==
    /\ Len(Services) < MaxFormServices
    /\ ~isServiceNameDuplicate(Services, name)
    /\ porterAppFormData' =
           WithServices(Append(Services, defaultClientService(name, type)))
    /\ EditorFrame

\* The add button of the pre-deploy list (limitOne, prePopulateService): not
\* rendered once the field array holds a service.
AddPredeploy ==
    /\ porterAppFormData.source.type = "github"
    /\ Len(Services) = 0
    /\ porterAppFormData' =
           WithServices(Append(Services, defaultClientService(Str_predeploy, "predeploy")))
    /\ EditorFrame

\* The allow-concurrent checkbox of a job: disabled when read-only.
ToggleAllowConcurrent(i) ==
    /\ Services[i].config.type = "job"
    /\ ~Services[i].config.allowConcurrent.readOnly
    /\ porterAppFormData' =
           [porterAppFormData EXCEPT
               !.app.services[i].config.allowConcurrent.value = ~@]
    /\ EditorFrame

\* "+ Add Custom Domain"
AppendDomain(i) ==
    /\ Services[i].config.type = "web"
    /\ Len(Services[i].config.domains) < MaxDomains
    /\ porterAppFormData' =
           [porterAppFormData EXCEPT
               !.app.services[i].config.domains = Append(@, [name |-> Field("", FALSE)])]
    /\ EditorFrame

\* Typing into the input of domain j: disabled when read-only.
TypeDomain(i, j) ==
    /\ Services[i].config.type = "web"
    /\ j \in DOMAIN Services[i].config.domains
    /\ ~Services[i].config.domains[j].name.readOnly
    /\ Services[i].config.domains[j].name.value # TypedDomain
    /\ porterAppFormData' =
           [porterAppFormData EXCEPT
               !.app.services[i].config.domains[j].name.value = TypedDomain]
    /\ EditorFrame

\* The DeleteButton of domain j: remove(j)
RemoveDomain(i, j) ==
    /\ Services[i].config.type = "web"
    /\ j \in DOMAIN Services[i].config.domains
    /\ porterAppFormData' =
           [porterAppFormData EXCEPT
               !.app.services[i].config.domains =
                   [k \in 1..(Len(@) - 1) |-> IF k < j THEN @[k] ELSE @[k + 1]]]
    /\ EditorFrame

NextEditors ==
    \/ \E name \in AddNames, type \in {"web", "job"} : AddService(name, type)
    \/ AddPredeploy
    \/ \E i \in DOMAIN Services : ToggleAllowConcurrent(i)
    \/ \E i \in DOMAIN Services : AppendDomain(i)
    \/ \E i \in DOMAIN Services, j \in 1..MaxDomains : TypeDomain(i, j)
    \/ \E i \in DOMAIN Services, j \in 1..MaxDomains : RemoveDomain(i, j)
    \/ ToProto

SpecEditors == InitEditors /\ [][NextEditors]_vars

----------------------------------------------------------------------------
(* Properties of the form's editors *)

\* The read-only domains of a service of the form.
LockedDomains(svc) ==
    IF svc.config.type # "web" THEN {}
    ELSE { svc.config.domains[j].name :
             j \in { k \in DOMAIN svc.config.domains :
                       svc.config.domains[k].name.readOnly } }

\* The domains of a service of the form.
DomainsOf(svc) ==
    IF svc.config.type # "web" THEN {}
    ELSE { svc.config.domains[j].name : j \in DOMAIN svc.config.domains }

\* C23: no step of the editors changes or removes a read-only value: the
\* name, run and instances of a service, the allow-concurrent flag of a job
\* and every custom domain that is read-only are in the form after the step,
\* with their values and still read-only.
C23_LockedValuesStay ==
    [][\A i \in DOMAIN Services :
          /\ i \in DOMAIN Services'
          /\ \A f \in {"name", "run", "instances"} :
                Services[i][f].readOnly => Services'[i][f] = Services[i][f]
          /\ (Services[i].config.type = "job"
                /\ Services[i].config.allowConcurrent.readOnly)
             => Services'[i].config.allowConcurrent =
                    Services[i].config.allowConcurrent
          /\ LockedDomains(Services[i]) \subseteq DomainsOf(Services'[i])]_vars

\* C25: no two services of the form have the same name, and the services map
\* built from the form has one entry for each service that is not the
\* predeploy.
C25_ServiceNamesDistinct ==
    /\ formPc \in {"input", "done"} =>
          \A i, j \in DOMAIN Services :
              Services[i].name.value = Services[j].name.value => i = j
    /\ formPc = "done" =>
          Cardinality(DOMAIN The(formProto).Services) = Len(FormServices)

\* C25 witness: the user added two services, the name of the second free,
\* and the form was converted.
C25_Witness ==
    /\ formPc = "done"
    /\ Len(FormServices) = 2
    /\ \A i \in DOMAIN FormServices : ~FormServices[i].name.readOnly
    /\ Cardinality(DOMAIN The(formProto).Services) = 2

----------------------------------------------------------------------------
(* The wire codec: base64 over the serialized PorterApp *)

\* Bytes are 0..255. A base64 text is a sequence of its characters' places
\* in the alphabet, 0..63, with 64 for the padding '=' and 65 for a character
\* outside the alphabet.
IsSymbol(c) == c \in 0..63
IsPadding(c) == c = 64

\* base64.StdEncoding.EncodeToString
RECURSIVE Base64Encode(_)
Base64Encode(b) ==
    IF Len(b) = 0 THEN <<>>
    ELSE IF Len(b) = 1
    THEN << b[1] \div 4, (b[1] % 4) * 16, 64, 64 >>
    ELSE IF Len(b) = 2
    THEN << b[1] \div 4, (b[1] % 4) * 16 + b[2] \div 16, (b[2] % 16) * 4, 64 >>
    ELSE << b[1] \div 4, (b[1] % 4) * 16 + b[2] \div 16,
            (b[2] % 16) * 4 + b[3] \div 64, b[3] % 64 >>
         \o Base64Encode(SubSeq(b, 4, Len(b)))

Corrupt == [bytes |-> <<>>, err |-> TRUE]

\* One group of four characters decoded as RawStdEncoding would: padding is
\* not accepted.
Quantum_noPadding(q, last) ==
    IF IsSymbol(q[1]) /\ IsSymbol(q[2]) /\ IsSymbol(q[3]) /\ IsSymbol(q[4])
    THEN [bytes |-> << q[1] * 4 + q[2] \div 16, (q[2] % 16) * 16 + q[3] \div 4,
                       (q[3] % 4) * 64 + q[4] >>,
          err |-> FALSE]
    ELSE Corrupt

\* One group of four characters decoded; padding only ends the last group.
Quantum(q, last) ==
    IF IsSymbol(q[1]) /\ IsSymbol(q[2]) /\ IsSymbol(q[3]) /\ IsSymbol(q[4])
    THEN [bytes |-> << q[1] * 4 + q[2] \div 16, (q[2] % 16) * 16 + q[3] \div 4,
                       (q[3] % 4) * 64 + q[4] >>,
          err |-> FALSE]
    ELSE IF last /\ IsSymbol(q[1]) /\ IsSymbol(q[2]) /\ IsSymbol(q[3]) /\ IsPadding(q[4])
    THEN [bytes |-> << q[1] * 4 + q[2] \div 16, (q[2] % 16) * 16 + q[3] \div 4 >>,
          err |-> FALSE]
    ELSE IF last /\ IsSymbol(q[1]) /\ IsSymbol(q[2]) /\ IsPadding(q[3]) /\ IsPadding(q[4])
    THEN [bytes |-> << q[1] * 4 + q[2] \div 16 >>, err |-> FALSE]
    ELSE Corrupt

\* base64.StdEncoding.DecodeString: [bytes, err]
RECURSIVE Base64Decode(_)
Base64Decode(t) ==
    IF Len(t) = 0 THEN [bytes |-> <<>>, err |-> FALSE]
    ELSE IF Len(t) < 4 THEN Corrupt
    ELSE LET head == Quantum(SubSeq(t, 1, 4), Len(t) = 4)
             rest == Base64Decode(SubSeq(t, 5, Len(t)))
         IN  IF head.err \/ rest.err THEN Corrupt
             ELSE [bytes |-> head.bytes \o rest.bytes, err |-> FALSE]

\* The serialized form of a message: its fields one after the other, each a
\* tag, the length of its payload and the payload; a field at its zero (an
\* empty string, an absent message) is left out.
NameTag == 10
RepositoryTag == 10
ImageTag == 50

LengthDelimited(tag, payload) == <<tag, Len(payload)>> \o payload

MarshalImage(image) ==
    IF image.Repository = <<>> THEN <<>>
    ELSE LengthDelimited(RepositoryTag, image.Repository)

\* helpers.MarshalContractObject of a PorterApp
MarshalContractObject(app) ==
    (IF app.Name = <<>> THEN <<>> ELSE LengthDelimited(NameTag, app.Name))
    \o (IF app.Image = {} THEN <<>>
        ELSE LengthDelimited(ImageTag, MarshalImage(The(app.Image))))

\* The fields of a serialized message: [fields, err]; err when a field is
\* cut short or is not length-delimited.
RECURSIVE Fields(_)
Fields(b) ==
    IF Len(b) = 0 THEN [fields |-> <<>>, err |-> FALSE]
    ELSE IF Len(b) < 2 \/ b[1] % 8 # 2 THEN [fields |-> <<>>, err |-> TRUE]
    ELSE IF Len(b) < 2 + b[2] THEN [fields |-> <<>>, err |-> TRUE]
    ELSE LET rest == Fields(SubSeq(b, 3 + b[2], Len(b)))
         IN  IF rest.err THEN rest
             ELSE [fields |-> << [tag |-> b[1], payload |-> SubSeq(b, 3, 2 + b[2])] >>
                              \o rest.fields,
                   err |-> FALSE]

\* The payload of the last field of `tag`, as an optional.
LastField(fields, tag) ==
    LET at == { k \in DOMAIN fields : fields[k].tag = tag }
    IN  IF at = {} THEN {}
        ELSE {fields[CHOOSE k \in at : \A j \in at : j <= k].payload}

\* Whether the bytes are the UTF-8 of a string (of one-byte characters).
ValidString(payload) == \A k \in DOMAIN payload : payload[k] < 128

UnmarshalImage(b) ==
    LET f == Fields(b)
        repository == LastField(f.fields, RepositoryTag)
    IN  IF f.err \/ \E r \in repository : ~ValidString(r)
        THEN [msg |-> {}, err |-> TRUE]
        ELSE [msg |-> {[Repository |-> IF repository = {} THEN <<>> ELSE The(repository)]},
              err |-> FALSE]

\* helpers.UnmarshalContractObject into a PorterApp: [msg, err]
UnmarshalContractObject(b) ==
    LET f == Fields(b)
        name == LastField(f.fields, NameTag)
        image == { UnmarshalImage(i) : i \in LastField(f.fields, ImageTag) }
    IN  IF f.err \/ (\E n \in name : ~ValidString(n)) \/ (\E i \in image : i.err)
        THEN [msg |-> {}, err |-> TRUE]
        ELSE [msg |-> {[ Name |-> IF name = {} THEN <<>> ELSE The(name),
                         Image |-> UNION { i.msg : i \in image } ]},
              err |-> FALSE]

----------------------------------------------------------------------------
(* ValidatePorterAppHandler *)

\* The longest string of a PorterApp on the wire.
MaxStringLen == 2

\* The characters of these strings: 'a' and 'z'.
Chars == {97, 122}

\* The PorterApp messages: a name, and an image or none.
Apps ==
    { [Name |-> n, Image |-> i] :
        n \in BoundedSeq(Chars, MaxStringLen),
        i \in {{}} \cup { {[Repository |-> r]} : r \in BoundedSeq(Chars, 1) } }

\* Requests no client encoder wrote: an empty text, a character outside the
\* alphabet, a text cut short, padding in the middle, the base64 of bytes
\* that are no message, and the base64 of a name that is not UTF-8.
MalformedTexts ==
    { <<>>, <<2, 65, 0, 0>>, <<2, 32, 4>>, <<2, 64, 64, 64, 2, 32, 4, 0>>,
      Base64Encode(<<10, 5, 97>>), Base64Encode(<<10, 1, 255>>) }

\* What ValidatePorterApp of the authority returns: an error, a nil response,
\* a response without Msg, a Msg without App, or an App.
CcpResponses ==
    { [kind |-> k, app |-> {}] : k \in {"error", "nil", "nil msg", "nil app"} }
    \cup { [kind |-> "app", app |-> {a}] : a \in Apps }

Failure(status, message) == {[status |-> status, message |-> message, body |-> <<>>]}

\* The checks of ServeHTTP before the call of the authority, without the
\* check of the name: [error, appProto]
LocalChecks_noNameCheck(req, proj) ==
    IF ~proj.ValidateApplyV2
    THEN [error |-> Failure("StatusForbidden",
                            "project does not have validate apply v2 enabled"),
          appProto |-> {}]
    ELSE IF ~req.decodable
    THEN [error |-> Failure("StatusBadRequest", "error decoding request"),
          appProto |-> {}]
    ELSE IF req.Base64AppProto = <<>>
    THEN [error |-> Failure("StatusBadRequest", "b64 yaml is empty"), appProto |-> {}]
    ELSE LET decoded == Base64Decode(req.Base64AppProto)
             unmarshalled == UnmarshalContractObject(decoded.bytes)
         IN  IF decoded.err
             THEN [error |-> Failure("StatusBadRequest", "error decoding base  yaml"),
                   appProto |-> {}]
             ELSE IF unmarshalled.err
             THEN [error |-> Failure("StatusBadRequest", "error unmarshalling app proto"),
                   appProto |-> {}]
             ELSE [error |-> {}, appProto |-> unmarshalled.msg]

\* The checks of ServeHTTP before the call of the authority: [error, appProto]
LocalChecks(req, proj) ==
    IF ~proj.ValidateApplyV2
    THEN [error |-> Failure("StatusForbidden",
                            "project does not have validate apply v2 enabled"),
          appProto |-> {}]
    ELSE IF ~req.decodable
    THEN [error |-> Failure("StatusBadRequest", "error decoding request"),
          appProto |-> {}]
    ELSE IF req.Base64AppProto = <<>>
    THEN [error |-> Failure("StatusBadRequest", "b64 yaml is empty"), appProto |-> {}]
    ELSE LET decoded == Base64Decode(req.Base64AppProto)
             unmarshalled == UnmarshalContractObject(decoded.bytes)
         IN  IF decoded.err
             THEN [error |-> Failure("StatusBadRequest", "error decoding base  yaml"),
                   appProto |-> {}]
             ELSE IF unmarshalled.err
             THEN [error |-> Failure("StatusBadRequest", "error unmarshalling app proto"),
                   appProto |-> {}]
             ELSE IF The(unmarshalled.msg).Name = <<>>
             THEN [error |-> Failure("StatusBadRequest", "app proto name is empty"),
                   appProto |-> {}]
             ELSE [error |-> {}, appProto |-> unmarshalled.msg]

\* What ServeHTTP writes after the call of the authority, with a nil
\* response reported as the authority's error is.
CcpOutcome_nilAsError(resp) ==
    IF resp.kind \in {"error", "nil"}
    THEN Failure("StatusInternalServerError", "error calling ccp validate porter app")
    ELSE IF resp.kind = "nil msg"
    THEN Failure("StatusInternalServerError", "ccp resp msg is nil")
    ELSE IF resp.kind = "nil app"
    THEN Failure("StatusInternalServerError", "ccp resp app is nil")
    ELSE {[ status |-> "StatusOK", message |-> "",
            body |-> Base64Encode(MarshalContractObject(The(resp.app))) ]}

\* What ServeHTTP writes after the call of the authority.
CcpOutcome(resp) ==
    IF resp.kind = "error"
    THEN Failure("StatusInternalServerError", "error calling ccp validate porter app")
    ELSE IF resp.kind = "nil"
    THEN Failure("StatusInternalServerError", "ccp resp is nil")
    ELSE IF resp.kind = "nil msg"
    THEN Failure("StatusInternalServerError", "ccp resp msg is nil")
    ELSE IF resp.kind = "nil app"
    THEN Failure("StatusInternalServerError", "ccp resp app is nil")
    ELSE {[ status |-> "StatusOK", message |-> "",
            body |-> Base64Encode(MarshalContractObject(The(resp.app))) ]}

\* A request arrives: one the client encoded from a PorterApp, or a malformed
\* one; its body decodes or not; the project has validate apply v2 or not.
InitHandler ==
    /\ CanonIdle
    /\ ReconIdle
    /\ SessionIdle
    /\ FormIdle
    /\ RestIdle
    /\ \E ok \in BOOLEAN :
          \/ \E a \in Apps :
                /\ sentApp = {a}
                /\ request = [decodable |-> ok,
                              Base64AppProto |-> Base64Encode(MarshalContractObject(a))]
          \/ \E t \in MalformedTexts :
                /\ sentApp = {}
                /\ request = [decodable |-> ok, Base64AppProto |-> t]
    /\ project \in [ValidateApplyV2 : BOOLEAN]
    /\ ccpRequests = <<>>
    /\ ccpResp = {}
    /\ response = {}
    /\ handlerPc = "input"

\* ServeHTTP, the call of the authority included.
ServeHTTP ==
    /\ handlerPc = "input"
    /\ LET local == LocalChecks(request, project)
       IN  IF local.error # {}
           THEN /\ response' = local.error
                /\ UNCHANGED <<ccpRequests, ccpResp>>
           ELSE \E resp \in CcpResponses :
                   /\ ccpRequests' = Append(ccpRequests, [App |-> The(local.appProto)])
                   /\ ccpResp' = {resp}
                   /\ response' = CcpOutcome(resp)
    /\ handlerPc' = "done"
    /\ UNCHANGED <<request, project, sentApp, canonVars, reconVars, sessionVars,
                   formVars, restVars>>

NextHandler == ServeHTTP

SpecHandler == InitHandler /\ [][NextHandler]_vars

----------------------------------------------------------------------------
(* Properties of the wire codec and of the validate handler *)

Served == handlerPc = "done"

\* Whether the request passes every check that needs no call.
Forwardable ==
    /\ project.ValidateApplyV2
    /\ request.decodable
    /\ request.Base64AppProto # <<>>
    /\ ~Base64Decode(request.Base64AppProto).err
    /\ LET u == UnmarshalContractObject(Base64Decode(request.Base64AppProto).bytes)
       IN  ~u.err /\ The(u.msg).Name # <<>>

C12_RemoteCallAfterLocalChecks ==
    Served =>
        /\ ~Forwardable =>
              /\ ccpRequests = <<>>
              /\ ccpResp = {}
              /\ \A r \in response : r.status \in {"StatusForbidden", "StatusBadRequest"}
        /\ ccpRequests # <<>> => Forwardable /\ Len(ccpRequests) = 1

\* C12 witness: a request whose specification has an empty name was served.
C12_Witness ==
    /\ Served
    /\ project.ValidateApplyV2
    /\ request.decodable
    /\ \E a \in sentApp : a.Name = <<>> /\ a.Image # {}
    /\ ccpRequests = <<>>
    /\ \E r \in response : r.message = "app proto name is empty"

\* C13: when the authority's response is absent or empty (a nil response, a
\* nil Msg, a nil App) the handler reports an internal server error, and what
\* it reports is not what it reports when the authority's call returns an
\* error.
C13_AbsentResponseIsNotARejection ==
    Served =>
        \A resp \in ccpResp :
            resp.kind \in {"nil", "nil msg", "nil app"} =>
                /\ \A r \in response : r.status = "StatusInternalServerError"
                /\ response # CcpOutcome([kind |-> "error", app |-> {}])

\* C13 witness: the authority returned a nil response to a forwarded request.
C13_Witness ==
    /\ Served
    /\ ccpRequests # <<>>
    /\ \E resp \in ccpResp : resp.kind = "nil"
    /\ \E r \in response : r.message = "ccp resp is nil"

----------------------------------------------------------------------------
(* BuildEventRepository: the sub-events of an event container *)

\* The most rows the sub-event table holds.
MaxSubEvents == 3

\* The event containers: their IDs.
Containers == {1, 2}

\* The sub-events handed to AppendEvent: EventContainerID not yet set.
SubEventInputs ==
    [ EventContainerID : {0}, EventID : {"build", "push"}, Index : {0, 1},
      Status : {"processing", "success"} ]

\* db.Create(event): a new row, whatever the table holds.
Create(table, row) == Append(table, row)

\* ReadEventsByContainerID(id)
ReadEventsByContainerID(id) ==
    SelectSeq(subEvents, LAMBDA e : e.EventContainerID = id)

InitEvents ==
    /\ CanonIdle
    /\ ReconIdle
    /\ SessionIdle
    /\ FormIdle
    /\ HandlerIdle
    /\ BuildIdle
    /\ TokenIdle
    /\ PodIdle
    /\ subEvents = <<>>
    /\ lastAppend = {}

\* AppendEvent(container, event); dbOk is whether the database took the row.
AppendEvent(container, event, dbOk) ==
    /\ Len(subEvents) < MaxSubEvents
    /\ LET stamped == [event EXCEPT !.EventContainerID = container]
       IN  /\ subEvents' = IF dbOk THEN Create(subEvents, stamped) ELSE subEvents
           /\ lastAppend' = {[event |-> stamped, err |-> ~dbOk]}
    /\ UNCHANGED <<canonVars, reconVars, sessionVars, formVars, handlerVars,
                   buildVars, tokenVars, podVars>>

NextEvents ==
    \E container \in Containers, event \in SubEventInputs, dbOk \in BOOLEAN :
        AppendEvent(container, event, dbOk)

SpecEvents == InitEvents /\ [][NextEvents]_vars

\* C26: a container never holds two sub-events with the same (id, index),
\* and after an AppendEvent that returned no error the container's one
\* sub-event with the appended (id, index) is the appended one.
C26_OneSubEventPerKey ==
    /\ \A c \in Containers :
          LET events == ReadEventsByContainerID(c)
          IN  \A i, j \in DOMAIN events :
                  (events[i].EventID = events[j].EventID
                     /\ events[i].Index = events[j].Index) => i = j
    /\ \A a \in lastAppend :
          ~a.err =>
              \A e \in Range(ReadEventsByContainerID(a.event.EventContainerID)) :
                  (e.EventID = a.event.EventID /\ e.Index = a.event.Index)
                      => e = a.event

----------------------------------------------------------------------------
(* build: create the image repository, build the image, push it *)

buildMethodPack == "pack"
buildMethodDocker == "docker"

\* URLs are sequences of their parts: the scheme, the host, the path.
Https == <<"https://">>

\* strings.TrimPrefix(s, prefix)
TrimPrefix(s, prefix) ==
    IF Len(s) >= Len(prefix) /\ SubSeq(s, 1, Len(prefix)) = prefix
    THEN SubSeq(s, Len(prefix) + 1, Len(s))
    ELSE s

\* The buildInputs a call is made with.
buildInputs ==
    [ ProjectID : {0, 1},
      ImageTag : {"", "v1"},
      RepositoryURL : { <<>>, Https, Https \o <<"reg.io", "/app">>, <<"reg.io", "/app">> },
      BuildMethod : {buildMethodDocker, buildMethodPack, "kaniko"} ]

\* What ListRegistries answers when it does not fail: {} is a nil list.
RegistryLists ==
    { {},
      {<<>>},
      {<< [ID |-> 7, URL |-> Https \o <<"reg.io">>] >>},
      {<< [ID |-> 0, URL |-> <<"reg.io">>] >>},
      {<< [ID |-> 5, URL |-> <<"other.io">>], [ID |-> 7, URL |-> <<"reg.io">>] >>},
      {<< [ID |-> 5, URL |-> <<"other.io">>] >>} }

\* The calls build makes to the client, the agents and the file system.
BuildSteps ==
    { "ListRegistries", "CreateRepository", "NewAgentWithAuthGetter", "Abs",
      "resolveDockerPaths", "BuildLocal", "pack.Build", "PushImage" }

\* What the world does during one call of build: the one call that fails,
\* if any, and the registries of the project.
BuildEnvs == [ failAt : BuildSteps \cup {"none"}, regList : RegistryLists ]

\* One call made, with whether it returned no error.
Called(step, env) == [call |-> step, ok |-> env.failAt # step]

\* The ID of the first registry whose URL the image URL contains: 0 if none.
RECURSIVE MatchingRegistry(_, _)
MatchingRegistry(regs, imageURL) ==
    IF regs = <<>> THEN 0
    ELSE IF Contains(TrimPrefix(imageURL, Https), TrimPrefix(Head(regs).URL, Https))
         THEN Head(regs).ID
         ELSE MatchingRegistry(Tail(regs), imageURL)

\* createImageRepositoryIfNotExists(ctx, client, projectID, imageURL)
createImageRepositoryIfNotExists(projectID, imageURL, env) ==
    IF projectID = 0 THEN [calls |-> <<>>, err |-> "must specify a project id"]
    ELSE IF imageURL = <<>> THEN [calls |-> <<>>, err |-> "must specify an image url"]
    ELSE LET list == Called("ListRegistries", env)
         IN  IF ~list.ok
             THEN [calls |-> <<list>>, err |-> "error calling list registries"]
             ELSE IF env.regList = {}
             THEN [calls |-> <<list>>, err |-> "registry list is nil"]
             ELSE IF Len(The(env.regList)) = 0
             THEN [calls |-> <<list>>, err |-> "no registries found for project"]
             ELSE IF MatchingRegistry(The(env.regList), imageURL) = 0
             THEN [calls |-> <<list>>, err |-> "no registries match url"]
             ELSE LET create == Called("CreateRepository", env)
                  IN  [calls |-> <<list, create>>,
                       err |-> IF create.ok THEN "" ELSE "error creating repository"]

\* The switch of build with a default case that returns no error.
buildImage_defaultBuilds(inp, env) ==
    IF inp.BuildMethod = buildMethodDocker
    THEN LET abs == Called("Abs", env)
             paths == Called("resolveDockerPaths", env)
             local == Called("BuildLocal", env)
         IN  IF ~abs.ok
             THEN [calls |-> <<abs>>, err |-> "error getting absolute path"]
             ELSE IF ~paths.ok
             THEN [calls |-> <<abs, paths>>, err |-> "error resolving docker paths"]
             ELSE [calls |-> <<abs, paths, local>>,
                   err |-> IF local.ok THEN "" ELSE "error building image with docker"]
    ELSE IF inp.BuildMethod = buildMethodPack
    THEN LET packed == Called("pack.Build", env)
         IN  [calls |-> <<packed>>,
              err |-> IF packed.ok THEN "" ELSE "error building image with pack"]
    ELSE [calls |-> <<>>, err |-> ""]

\* The switch on inp.BuildMethod of build
buildImage(inp, env) ==
    IF inp.BuildMethod = buildMethodDocker
    THEN LET abs == Called("Abs", env)
             paths == Called("resolveDockerPaths", env)
             local == Called("BuildLocal", env)
         IN  IF ~abs.ok
             THEN [calls |-> <<abs>>, err |-> "error getting absolute path"]
             ELSE IF ~paths.ok
             THEN [calls |-> <<abs, paths>>, err |-> "error resolving docker paths"]
             ELSE [calls |-> <<abs, paths, local>>,
                   err |-> IF local.ok THEN "" ELSE "error building image with docker"]
    ELSE IF inp.BuildMethod = buildMethodPack
    THEN LET packed == Called("pack.Build", env)
         IN  [calls |-> <<packed>>,
              err |-> IF packed.ok THEN "" ELSE "error building image with pack"]
    ELSE [calls |-> <<>>, err |-> "invalid build method"]

\* build(ctx, client, inp): the calls it made and the error it returned
build(inp, env) ==
    IF inp.ProjectID = 0 THEN [calls |-> <<>>, err |-> "must specify a project id"]
    ELSE IF inp.ImageTag = "" THEN [calls |-> <<>>, err |-> "must specify an image tag"]
    ELSE IF inp.RepositoryURL = <<>>
    THEN [calls |-> <<>>, err |-> "must specify a registry url"]
    ELSE LET imageURL == TrimPrefix(inp.RepositoryURL, Https)
             repo == createImageRepositoryIfNotExists(inp.ProjectID, imageURL, env)
             agent == Called("NewAgentWithAuthGetter", env)
             image == buildImage(inp, env)
             push == Called("PushImage", env)
         IN  IF repo.err # ""
             THEN [calls |-> repo.calls, err |-> "error creating image repository"]
             ELSE IF ~agent.ok
             THEN [calls |-> repo.calls \o <<agent>>, err |-> "error getting docker agent"]
             ELSE IF image.err # ""
             THEN [calls |-> repo.calls \o <<agent>> \o image.calls, err |-> image.err]
             ELSE [calls |-> repo.calls \o <<agent>> \o image.calls \o <<push>>,
                   err |-> IF push.ok THEN "" ELSE "error pushing image url"]

InitBuild ==
    /\ CanonIdle
    /\ ReconIdle
    /\ SessionIdle
    /\ FormIdle
    /\ HandlerIdle
    /\ EventIdle
    /\ TokenIdle
    /\ PodIdle
    /\ \E inp \in buildInputs : buildInp = {inp}
    /\ buildCalls = <<>>
    /\ buildErr = ""
    /\ buildPc = "input"

\* One call of build.
Build ==
    /\ buildPc = "input"
    /\ \E env \in BuildEnvs :
          LET r == build(The(buildInp), env)
          IN  /\ buildCalls' = r.calls
              /\ buildErr' = r.err
    /\ buildPc' = "done"
    /\ UNCHANGED <<buildInp, canonVars, reconVars, sessionVars, formVars,
                   handlerVars, eventVars, tokenVars, podVars>>

NextBuild == Build

SpecBuild == InitBuild /\ [][NextBuild]_vars

----------------------------------------------------------------------------
(* Properties of build *)

\* The positions of the calls of build at which PushImage was called.
Pushes == { k \in DOMAIN buildCalls : buildCalls[k].call = "PushImage" }

\* The calls that build the image.
ImageBuilds == {"BuildLocal", "pack.Build"}

\* C27: PushImage is called only right after a docker or pack build that
\* returned no error; when an input check fails no call is made at all; and
\* when an input check or any call before the push fails, or the build
\* method is neither pack nor docker, build returns an error and PushImage
\* is not called.
C27_PushOnlyAfterBuild ==
    buildPc = "done" =>
        LET inp == The(buildInp)
        IN  /\ \A k \in Pushes :
                  /\ k > 1
                  /\ buildCalls[k - 1].call \in ImageBuilds
                  /\ buildCalls[k - 1].ok
                  /\ \A j \in 1..(k - 1) : buildCalls[j].ok
            /\ (inp.ProjectID = 0 \/ inp.ImageTag = "" \/ inp.RepositoryURL = <<>>)
                  => buildCalls = <<>> /\ buildErr # ""
            /\ inp.BuildMethod \notin {buildMethodPack, buildMethodDocker}
                  => buildErr # "" /\ Pushes = {}
            /\ (\E k \in DOMAIN buildCalls :
                    ~buildCalls[k].ok /\ buildCalls[k].call # "PushImage")
                  => buildErr # "" /\ Pushes = {}
            /\ Pushes = {} => buildErr # ""

\* C27 witness: a docker build that went through and was pushed.
C27_Witness ==
    /\ buildPc = "done"
    /\ The(buildInp).BuildMethod = buildMethodDocker
    /\ buildErr = ""
    /\ Pushes # {}
    /\ \E k \in DOMAIN buildCalls : buildCalls[k].call = "BuildLocal"

\* C27 second witness: the path could not be resolved and nothing was pushed.
C27_WitnessFailed ==
    /\ buildPc = "done"
    /\ buildErr = "error resolving docker paths"
    /\ Pushes = {}

----------------------------------------------------------------------------
(* AWSIntegration.GetBearerToken and its token cache *)

\* The latest time of the clock.
MaxClock == 3

\* The most tokens the generator issues.
MaxTokens == 2

\* How long a generated token is valid: tok.Expiration is the time of its
\* generation plus this.
TokenTTL == 1

\* The caches a call can find: the zero cache, a token that expires at 1, a
\* cache with an expiry and no token.
InitialCaches ==
    { [Token |-> <<>>, Expiry |-> 0],
      [Token |-> <<100>>, Expiry |-> 1],
      [Token |-> <<>>, Expiry |-> 2] }

\* cache.IsExpired(): the expiry lies before now
IsExpired(cache, now) == now > cache.Expiry

\* The condition of line 84 without its look at the expiry.
UseCached_ignoresExpiry(cache, lookupErr, now) ==
    ~lookupErr /\ Len(cache.Token) > 0

\* err == nil && !cache.IsExpired() && len(tok) > 0
UseCached(cache, lookupErr, now) ==
    ~lookupErr /\ ~IsExpired(cache, now) /\ Len(cache.Token) > 0

\* The steps of generating a token that can return an error.
GeneratorSteps == {"NewGenerator", "NewSessionWithOptions", "GetWithOptions"}

InitTokens ==
    /\ CanonIdle
    /\ ReconIdle
    /\ SessionIdle
    /\ FormIdle
    /\ HandlerIdle
    /\ EventIdle
    /\ BuildIdle
    /\ PodIdle
    /\ tokenCache \in InitialCaches
    /\ clock = 0
    /\ tokenCall = {}
    /\ generated = 0

\* Time passes.
Tick ==
    /\ clock < MaxClock
    /\ clock' = clock + 1
    /\ UNCHANGED <<tokenCache, tokenCall, generated, canonVars, reconVars,
                   sessionVars, formVars, handlerVars, eventVars, buildVars,
                   podVars>>

\* GetBearerToken(getTokenCache, setTokenCache): lookupErr is whether
\* getTokenCache returned an error, failAt the generator step that fails.
GetBearerToken(lookupErr, failAt) ==
    /\ IF UseCached(tokenCache, lookupErr, clock)
       THEN /\ tokenCall' = {[ lookupErr |-> lookupErr, at |-> clock, from |-> "cache",
                               tok |-> tokenCache.Token, err |-> FALSE ]}
            /\ UNCHANGED <<tokenCache, generated>>
       ELSE IF failAt # "none"
       THEN /\ tokenCall' = {[ lookupErr |-> lookupErr, at |-> clock, from |-> "none",
                               tok |-> <<>>, err |-> TRUE ]}
            /\ UNCHANGED <<tokenCache, generated>>
       ELSE /\ generated < MaxTokens
            /\ generated' = generated + 1
            /\ tokenCache' = [Token |-> <<generated + 1>>, Expiry |-> clock + TokenTTL]
            /\ tokenCall' = {[ lookupErr |-> lookupErr, at |-> clock,
                               from |-> "generator",
                               tok |-> <<generated + 1>>, err |-> FALSE ]}
    /\ UNCHANGED <<clock, canonVars, reconVars, sessionVars, formVars,
                   handlerVars, eventVars, buildVars, podVars>>

NextTokens ==
    \/ Tick
    \/ \E lookupErr \in BOOLEAN, failAt \in GeneratorSteps \cup {"none"} :
          GetBearerToken(lookupErr, failAt)

SpecTokens == InitTokens /\ [][NextTokens]_vars

----------------------------------------------------------------------------
(* Properties of GetBearerToken *)

\* C28: a call returns the cached token, generating nothing, exactly when the
\* lookup returned no error and the cached token is not expired and not
\* empty; otherwise it returns a newly generated token, stored with its
\* expiration, or an error that leaves the cache as it was. No call returns
\* a token that is expired.
C28_CachedTokenWhenUsable ==
    [][tokenCall' # tokenCall =>
          LET c == The(tokenCall')
              usable == /\ ~c.lookupErr
                        /\ clock <= tokenCache.Expiry
                        /\ tokenCache.Token # <<>>
          IN  /\ usable <=> c.from = "cache"
              /\ usable => /\ c.tok = tokenCache.Token
                           /\ ~c.err
                           /\ generated' = generated
                           /\ tokenCache' = tokenCache
              /\ ~usable /\ c.err => /\ c.tok = <<>>
                                     /\ tokenCache' = tokenCache
                                     /\ generated' = generated
              /\ ~usable /\ ~c.err => /\ generated' = generated + 1
                                      /\ c.tok = <<generated'>>
                                      /\ tokenCache'.Token = c.tok
                                      /\ tokenCache'.Expiry = clock + TokenTTL
              /\ ~c.err => /\ c.tok = tokenCache'.Token
                           /\ clock <= tokenCache'.Expiry]_vars

\* C28 witness: the token found at the start expired and was replaced by a
\* generated one, and a later call returned the generated one from the cache.
C28_Witness ==
    /\ generated = 1
    /\ tokenCache.Token = <<1>>
    /\ \E c \in tokenCall :
          /\ c.from = "cache"
          /\ c.tok = <<1>>
          /\ c.at = tokenCache.Expiry
          /\ c.at > 1

----------------------------------------------------------------------------
(* ControllerTabFC: the pods of a controller and the selected pod *)

\* The most updatePods calls of one mounted tab.
MaxPodRequests == 3

\* What getMatchingPods answers: the names of the pods, in its order.
PodLists == { <<>>, <<"pod-a">>, <<"pod-a", "pod-b">>, <<"pod-b", "pod-a">> }

InitPods ==
    /\ CanonIdle
    /\ ReconIdle
    /\ SessionIdle
    /\ FormIdle
    /\ HandlerIdle
    /\ EventIdle
    /\ BuildIdle
    /\ TokenIdle
    /\ pods = <<>>
    /\ selectedPod = {}
    /\ userSelectedPod = FALSE
    /\ podRequests = <<>>

\* What no step of the tab touches.
PodFrame ==
    UNCHANGED <<canonVars, reconVars, sessionVars, formVars, handlerVars,
                eventVars, buildVars, tokenVars>>

\* The effect calls updatePods: the call is the closure of this render, with
\* this render's userSelectedPod.
UpdatePods ==
    /\ Len(podRequests) < MaxPodRequests
    /\ podRequests' = Append(podRequests,
                             [captured |-> userSelectedPod, pc |-> "pending"])
    /\ UNCHANGED <<pods, selectedPod, userSelectedPod>>
    /\ PodFrame

\* handleDeletePod(podPendingDelete): deletePod is sent; its then-callback
\* calls the updatePods of the render in which the user confirmed.
HandleDeletePod ==
    /\ Len(podRequests) < MaxPodRequests
    /\ pods # <<>>
    /\ podRequests' = Append(podRequests,
                             [captured |-> userSelectedPod, pc |-> "deleting"])
    /\ UNCHANGED <<pods, selectedPod, userSelectedPod>>
    /\ PodFrame

\* deletePod resolves: on success updatePods is called.
DeleteResolves(i, ok) ==
    /\ podRequests[i].pc = "deleting"
    /\ podRequests' = [podRequests EXCEPT ![i].pc = IF ok THEN "pending" ELSE "failed"]
    /\ UNCHANGED <<pods, selectedPod, userSelectedPod>>
    /\ PodFrame

\* getMatchingPods of call i resolves with data: setPods, and selectPod of
\* the first pod unless the call's userSelectedPod is set. With no pod,
\* newPods[0].status throws and the catch swallows it.
PodsResolve(i, data) ==
    /\ podRequests[i].pc = "pending"
    /\ podRequests' = [podRequests EXCEPT ![i].pc = "done"]
    /\ pods' = data
    /\ selectedPod' = IF ~podRequests[i].captured /\ data # <<>>
                      THEN {data[1]}
                      ELSE selectedPod
    /\ UNCHANGED userSelectedPod
    /\ PodFrame

\* getMatchingPods of call i fails: the catch swallows the error.
PodsFail(i) ==
    /\ podRequests[i].pc = "pending"
    /\ podRequests' = [podRequests EXCEPT ![i].pc = "failed"]
    /\ UNCHANGED <<pods, selectedPod, userSelectedPod>>
    /\ PodFrame

\* onTabClick of the row of pod k
OnTabClick(k) ==
    /\ selectedPod' = {pods[k]}
    /\ userSelectedPod' = TRUE
    /\ UNCHANGED <<pods, podRequests>>
    /\ PodFrame

NextPods ==
    \/ UpdatePods
    \/ HandleDeletePod
    \/ \E i \in DOMAIN podRequests, ok \in BOOLEAN : DeleteResolves(i, ok)
    \/ \E i \in DOMAIN podRequests, data \in PodLists : PodsResolve(i, data)
    \/ \E i \in DOMAIN podRequests : PodsFail(i)
    \/ \E k \in DOMAIN pods : OnTabClick(k)

SpecPods == InitPods /\ [][NextPods]_vars

\* C30: once the user has selected a pod, no completion of a pod-list
\* refresh changes the selected pod.
C30_RefreshKeepsUserSelection ==
    [][(/\ userSelectedPod
        /\ \E i \in DOMAIN podRequests :
              podRequests[i].pc = "pending" /\ podRequests'[i].pc = "done")
       => selectedPod' = selectedPod]_vars

=============================================================================
